---- MODULE Spec2Model ----
(***************************************************************************)
(* Virtual-time radio node of ot-rfsim: the virtual clock (alarm.c), the   *)
(* two-level radio state machine (radio.c), the event dispatcher           *)
(* (platform-rfsim.c), the outbound event senders (event-sim.c) and the    *)
(* driver loop (system.c).                                                 *)
(*                                                                         *)
(* The statics of the C files are the VARIABLES.  A handler of the code is *)
(* an operator from a node record (all statics, plus the events sent and   *)
(* the upcalls made so far in the running step) to a node record, so that  *)
(* the calls a handler makes compose in the order of the code.  An action  *)
(* loads the record, applies the handler and stores the record.            *)
(*                                                                         *)
(* The stack above the radio is the environment.  It calls the radio API   *)
(* while it has control: between two calls of otSysProcessDrivers          *)
(* (tasklets) and inside an upcall; a call made inside an upcall is taken  *)
(* when the step that made the upcall has returned.                        *)
(***************************************************************************)
EXTENDS Integers, Sequences, FiniteSets, TLC

(***************************************************************************)
(* Bounds of the model.                                                    *)
(***************************************************************************)
\* the virtual clock is not advanced past this instant (us)
MaxNow == 600
\* the clock specification reads this many inbound events
MaxClockEvents == 4
\* the interferer specification reads this many inbound events
MaxIntfEvents == 7
\* the API specification reads this many inbound events
MaxApiEvents == 3
\* the alarm specification reads this many inbound events
MaxAlarmEvents == 3
\* the clock starts WrapLead microseconds before the 32-bit views wrap and
\* runs until WrapLead microseconds after
WrapLead == 2000
\* the parameter specification reads this many inbound events
MaxDispatchEvents == 3
\* the drift specification reads this many inbound events with mixed delays
MaxDriftEvents == 5
\* and this many advances of one second under the largest drift
MaxDriftAdvances == 1000

(***************************************************************************)
(* Program constants.                                                      *)
(***************************************************************************)
UNDEFINED_TIME_US == 0
FAILSAFE_TIME_US == 1
RFSIM_TURNAROUND_TIME_US == 40
RFSIM_STARTUP_TIME_US == 140
RFSIM_RAMPUP_TIME_US == 40
RFSIM_CCA_ED_THRESHOLD_DEFAULT_DBM == -75
RFSIM_RX_SENSITIVITY_DEFAULT_DBM == -100
RFSIM_TX_POWER_DEFAULT_DBM == 0
RFSIM_CSL_ACCURACY_DEFAULT_PPM == 20
RFSIM_CSL_UNCERTAINTY_DEFAULT_10US == 10
OT_RADIO_SYMBOL_TIME == 16
OT_RADIO_SYMBOLS_PER_OCTET == 2
OT_RADIO_RSSI_INVALID == 127
OT_RADIO_POWER_INVALID == 127
OT_RADIO_LIFS_TIME_US == 40 * OT_RADIO_SYMBOL_TIME
OT_RADIO_SIFS_TIME_US == 12 * OT_RADIO_SYMBOL_TIME
OT_RADIO_AIFS_TIME_US == 12 * OT_RADIO_SYMBOL_TIME
OT_RADIO_CCA_TIME_US == 8 * OT_RADIO_SYMBOL_TIME
OT_RADIO_SHR_PHR_LENGTH_BYTES == 6
OT_RADIO_MAX_ACK_WAIT_US == OT_RADIO_AIFS_TIME_US + (10 * OT_RADIO_SYMBOL_TIME)
OT_RADIO_aMaxSifsFrameSize == 18
OT_RADIO_WIFI_MAX_TXTIME_US == 5484
OT_RADIO_WIFI_SLOT_TIME_US == 9
OT_RADIO_WIFI_CCA_TIME_US == 28
OT_RADIO_WIFI_CWMIN_SLOTS == 32
kMinChannel == 11
kMaxChannel == 26
OT_EVENT_DATA_MAX_SIZE == 2048
PS_PER_US == 1000000
US_PER_MS == 1000
\* platformAlarmGetNext() returns INT64_MAX when no alarm is armed; written
\* here as the largest integer of the model checker, above every time value
INT64_MAX == 2147483647
INT32_MAX == 2147483647

(***************************************************************************)
(* State.                                                                  *)
(***************************************************************************)
VARIABLES
    \* alarm.c
    sNow, sClockDriftPpm, sDriftPicoSec,
    sIsMsRunning, sMsAlarm, sIsUsRunning, sUsAlarm,
    \* radio.c
    sState, sSubState, sNextRadioEventTime, sTurnaroundTimeUs,
    sTxWait, sDelaySleep, sPromiscuous, sTxInterfererLevel,
    sCurrentChannel, sOngoingOperationChannel, sCcaEdThresh,
    sLastTxEventData, sTransmitFrame, sReceiveFrame, sAckFrame,
    sLastReported, sTxPower, sRxSensitivity, sEnergyScanning, sEnergyScanEndTime,
    sCslAccuracy, sCslUncertainty, sCslPeriod, sCslSampleTime,
    sChannelMaxTransmitPower,
    \* platform-rfsim.c
    gLastMsgId,
    \* system.c: position of the single thread in otSysProcessDrivers
    pc,
    \* what the last step did: events written to the socket, upcalls made to
    \* the stack, value returned by an API call, the step and its input
    sent, upcalls, ret, lastOp, lastEv,
    \* the stack has control (an upcall was made by the last loop step)
    inStack,
    \* sub-state, coarse state and tx_wait before the last step
    pre,
    \* observation clocks: instant of the last handled TX_DONE of a data
    \* frame (kept until the ACK wait has ended and NO_ACK, if any, has been
    \* reported), of the last handled RX_DONE that asked for an ACK
    tTxDone, tRxDone,
    \* while an ACK is due or under way: the frame it acknowledges was handed
    \* to the stack with receive-done
    rxDelivered,
    \* while the radio is in TX_TX_TO_RX or the IFS_WAIT that follows: the
    \* instant of the TX_DONE that ended the transmission plus the interframe
    \* spacing of the frame the tx-done was reported for
    tIfsEnd,
    \* the last arming of the millisecond and of the microsecond alarm: the
    \* clock, in the unit of the alarm, when the stack armed it, and the dt
    tMsArmed, tUsArmed,
    \* instant of the last RADIO_COMM_START the node sent, while the virtual
    \* clock still shows that instant
    tCommStart,
    \* tx_power of the last RADIO_STATE the node sent
    reportedTxPower,
    \* the frame otPlatRadioTransmit accepted during a reception and that
    \* platformRadioProcess has not looked at yet: sub-state and instant of
    \* the call
    txAccepted,
    \* number of inbound events read so far (counted by the clock and the
    \* alarm specification, where the simulator numbers its messages with it,
    \* and by the interferer specification)
    nEvents,
    \* virtual time the simulator has let pass: the sum of the delays of the
    \* inbound events read so far
    tAdvanced,
    \* how the process has ended, "running" while it has not
    exitStatus,
    \* number of RADIO_COMM_START events sent with the frame of the
    \* otPlatRadioTransmit call that was accepted last, while no tx-done has
    \* been reported since that call (0 otherwise; counted up to 2)
    nFrameSent

clockVars == <<sNow, sClockDriftPpm, sDriftPicoSec>>
alarmVars == <<sIsMsRunning, sMsAlarm, sIsUsRunning, sUsAlarm>>
radioVars == <<sState, sSubState, sNextRadioEventTime, sTurnaroundTimeUs,
               sTxWait, sDelaySleep, sPromiscuous, sTxInterfererLevel,
               sCurrentChannel, sOngoingOperationChannel, sCcaEdThresh,
               sLastTxEventData, sTransmitFrame, sReceiveFrame, sAckFrame,
               sLastReported, sTxPower, sRxSensitivity,
               sEnergyScanning, sEnergyScanEndTime, sCslAccuracy, sCslUncertainty,
               sCslPeriod, sCslSampleTime,
               sChannelMaxTransmitPower>>
obsVars == <<sent, upcalls, ret, lastOp, lastEv, inStack, pre, tTxDone, tRxDone,
             rxDelivered, tIfsEnd, tMsArmed, tUsArmed,
             tCommStart, reportedTxPower, txAccepted, nEvents, tAdvanced, exitStatus,
             nFrameSent>>
vars == <<clockVars, alarmVars, radioVars, gLastMsgId, pc, obsVars>>

(***************************************************************************)
(* Frames.  The MAC frame parser is an external collaborator: a frame is   *)
(* the record of what the parser answers about it.                         *)
(***************************************************************************)
\* mPsdu holds the octets of the buffer the frame points to, of which the
\* first mLength are the frame; keyId is the key index of a frame secured
\* in key id mode 1, and -1 for every other frame; mCslIe is the content of
\* the CSL header IE of the frame, <<period, phase>>, and <<>> for a frame
\* without one; mIsHeaderUpdated is the flag of the same name of mTxInfo
Frame(ch, len, isAck, ackReq, toMe, seq) ==
    [mChannel |-> ch, mLength |-> len, isAck |-> isAck,
     ackReq |-> ackReq, toMe |-> toMe, seq |-> seq,
     isVersion2015 |-> FALSE, keyId |-> -1, mPsdu |-> [i \in 1..len |-> 0],
     mIsHeaderUpdated |-> FALSE, mCslIe |-> <<>>]

\* a zero-initialised static frame buffer
NoFrame == Frame(0, 0, FALSE, FALSE, FALSE, 0)

NoTxEventData == [mChannel |-> 0, mPower |-> 0, mError |-> "NONE", mDuration |-> 0]

NoEvent == [type |-> "-", delay |-> 0, mChannel |-> 0, mPower |-> 0,
            mError |-> "NONE", mDuration |-> 0, frame |-> NoFrame,
            mParam |-> "-", mValue |-> 0, mMsgId |-> 0, mDataLength |-> 0]

\* the size of the packed structure that starts the payload of an event:
\* struct RadioCommEventData, RfSimParamEventData, MsgToHostEventData
EventDataSize(type) ==
    CASE type \in {"RADIO_COMM_START", "RADIO_RX_DONE", "RADIO_TX_DONE",
                   "RADIO_CHAN_SAMPLE"} -> 11
      [] type \in {"RFSIM_PARAM_GET", "RFSIM_PARAM_SET"} -> 5
      [] type \in {"IP6_FROM_HOST", "UDP_FROM_HOST"} -> 36
      [] OTHER -> 0

\* an event of the simulator, its payload just the structure of its type
SimEvent(type, delay) ==
    [NoEvent EXCEPT !.type = type, !.delay = delay, !.mDataLength = EventDataSize(type)]

(***************************************************************************)
(* The node record.                                                        *)
(***************************************************************************)
Cur ==
    [sNow |-> sNow, sClockDriftPpm |-> sClockDriftPpm, sDriftPicoSec |-> sDriftPicoSec,
     sIsMsRunning |-> sIsMsRunning, sMsAlarm |-> sMsAlarm,
     sIsUsRunning |-> sIsUsRunning, sUsAlarm |-> sUsAlarm,
     sState |-> sState, sSubState |-> sSubState,
     sNextRadioEventTime |-> sNextRadioEventTime,
     sTurnaroundTimeUs |-> sTurnaroundTimeUs,
     sTxWait |-> sTxWait, sDelaySleep |-> sDelaySleep,
     sPromiscuous |-> sPromiscuous, sTxInterfererLevel |-> sTxInterfererLevel,
     sCurrentChannel |-> sCurrentChannel,
     sOngoingOperationChannel |-> sOngoingOperationChannel,
     sCcaEdThresh |-> sCcaEdThresh,
     sLastTxEventData |-> sLastTxEventData,
     sTransmitFrame |-> sTransmitFrame, sReceiveFrame |-> sReceiveFrame,
     sAckFrame |-> sAckFrame, sLastReported |-> sLastReported,
     sTxPower |-> sTxPower, sRxSensitivity |-> sRxSensitivity,
     sEnergyScanning |-> sEnergyScanning,
     sEnergyScanEndTime |-> sEnergyScanEndTime,
     sCslAccuracy |-> sCslAccuracy, sCslUncertainty |-> sCslUncertainty,
     sCslPeriod |-> sCslPeriod, sCslSampleTime |-> sCslSampleTime,
     sChannelMaxTransmitPower |-> sChannelMaxTransmitPower,
     gLastMsgId |-> gLastMsgId,
     tTxDone |-> tTxDone, tRxDone |-> tRxDone, rxDelivered |-> rxDelivered,
     tIfsEnd |-> tIfsEnd,
     sent |-> <<>>, upcalls |-> <<>>, assertFailed |-> FALSE]

Store(n) ==
    /\ sNow' = n.sNow
    /\ sClockDriftPpm' = n.sClockDriftPpm
    /\ sDriftPicoSec' = n.sDriftPicoSec
    /\ sIsMsRunning' = n.sIsMsRunning
    /\ sMsAlarm' = n.sMsAlarm
    /\ sIsUsRunning' = n.sIsUsRunning
    /\ sUsAlarm' = n.sUsAlarm
    /\ sState' = n.sState
    /\ sSubState' = n.sSubState
    /\ sNextRadioEventTime' = n.sNextRadioEventTime
    /\ sTurnaroundTimeUs' = n.sTurnaroundTimeUs
    /\ sTxWait' = n.sTxWait
    /\ sDelaySleep' = n.sDelaySleep
    /\ sPromiscuous' = n.sPromiscuous
    /\ sTxInterfererLevel' = n.sTxInterfererLevel
    /\ sCurrentChannel' = n.sCurrentChannel
    /\ sOngoingOperationChannel' = n.sOngoingOperationChannel
    /\ sCcaEdThresh' = n.sCcaEdThresh
    /\ sLastTxEventData' = n.sLastTxEventData
    /\ sTransmitFrame' = n.sTransmitFrame
    /\ sReceiveFrame' = n.sReceiveFrame
    /\ sAckFrame' = n.sAckFrame
    /\ sLastReported' = n.sLastReported
    /\ sTxPower' = n.sTxPower
    /\ sRxSensitivity' = n.sRxSensitivity
    /\ sEnergyScanning' = n.sEnergyScanning
    /\ sEnergyScanEndTime' = n.sEnergyScanEndTime
    /\ sCslAccuracy' = n.sCslAccuracy
    /\ sCslUncertainty' = n.sCslUncertainty
    /\ sCslPeriod' = n.sCslPeriod
    /\ sCslSampleTime' = n.sCslSampleTime
    /\ sChannelMaxTransmitPower' = n.sChannelMaxTransmitPower
    /\ gLastMsgId' = n.gLastMsgId
    /\ reportedTxPower' =
          LET reports == {i \in 1..Len(n.sent) : n.sent[i].type = "RADIO_STATE"}
          IN  IF reports = {} THEN reportedTxPower
              ELSE n.sent[CHOOSE i \in reports : \A j \in reports : j <= i].data.mTxPower
    /\ tTxDone' = IF \/ n.sSubState \in {"TX_TX_TO_AIFS", "TX_AIFS_WAIT", "TX_ACK_RX_ONGOING"}
                     \/ \E i \in 1..Len(n.upcalls) : n.upcalls[i].error = "NO_ACK"
                  THEN n.tTxDone ELSE -1
    /\ tRxDone' = IF n.sSubState \in {"RX_AIFS_WAIT", "RX_ACK_TX_ONGOING"}
                  THEN n.tRxDone ELSE -1
    /\ rxDelivered' = (/\ n.sSubState \in {"RX_AIFS_WAIT", "RX_ACK_TX_ONGOING"}
                       /\ n.rxDelivered)
    /\ tIfsEnd' = IF n.sSubState \in {"TX_TX_TO_RX", "IFS_WAIT"} THEN n.tIfsEnd ELSE -1
    /\ tCommStart' = IF \E i \in 1..Len(n.sent) : n.sent[i].type = "RADIO_COMM_START"
                     THEN n.sNow
                     ELSE IF tCommStart = n.sNow THEN tCommStart ELSE -1
    /\ sent' = n.sent
    /\ upcalls' = n.upcalls
    /\ pre' = [sub |-> sSubState, state |-> sState, txWait |-> sTxWait,
               delaySleep |-> sDelaySleep]

\* an upcall into the stack
\* (logged with the coarse state and the sub-state the stack finds)
Upcall(n, u) ==
    [n EXCEPT !.upcalls = Append(@, [name |-> u.name, ack |-> u.ack, error |-> u.error,
                                     sState |-> n.sState, sSubState |-> n.sSubState])]

TxDoneUpcall(ack, err) == [name |-> "TxDone", ack |-> ack, error |-> err]
ReceiveDoneUpcall(err) == [name |-> "ReceiveDone", ack |-> FALSE, error |-> err]
PlainUpcall(name) == [name |-> name, ack |-> FALSE, error |-> "NONE"]

(***************************************************************************)
(* event-sim.c: outbound events.                                           *)
(***************************************************************************)
\* values the never-assigned delay field of a stack-allocated event can hold
IndeterminateDelays == {0, 1}

\* struct RadioStateEventData, zero-initialised
NoStateReport ==
    [mChannel |-> 0, mTxPower |-> 0, mRxSensitivity |-> 0, mEnergyState |-> "DISABLED",
     mSubState |-> "READY", mState |-> "DISABLED"]

OutEvent(type, delay, kind, err) ==
    [type |-> type, delay |-> delay, kind |-> kind, mError |-> err, mMsgId |-> 0,
     mParam |-> "-", mValue |-> 0, data |-> NoStateReport, mPsdu |-> <<>>,
     mCslIe |-> <<>>]

\* an event that keeps the message number it was built with
otSimSendEventUntagged(n, ev) == [n EXCEPT !.sent = Append(@, ev)]

otSimSendEvent(n, ev) ==
    [n EXCEPT !.sent = Append(@, [ev EXCEPT !.mMsgId = n.gLastMsgId])]

otSimSendRadioChanSampleEvent(n) ==
    otSimSendEvent(n, OutEvent("RADIO_CHAN_SAMPLE", 0, "cca", "NONE"))

otSimSendRadioStateEvent(n, aStateData, aDeltaUntilNextRadioState) ==
    otSimSendEvent(n, [OutEvent("RADIO_STATE", aDeltaUntilNextRadioState, "state", "NONE")
                       EXCEPT !.data = aStateData])

otSimSendRfSimParamRespEvent(n, param, value) ==
    otSimSendEvent(n, [OutEvent("RFSIM_PARAM_RSP", 0, "param", "NONE")
                       EXCEPT !.mParam = param, !.mValue = value])

\* a send that writes the event twice
otSimSendRadioCommEventTwice(n, kind, aPayload, d) ==
    LET ev == [OutEvent("RADIO_COMM_START", d, kind, n.sLastTxEventData.mError)
               EXCEPT !.mPsdu = aPayload.mPsdu, !.mCslIe = aPayload.mCslIe]
    IN  otSimSendEvent(otSimSendEvent(n, ev), ev)

\* event.mDelay is not assigned: d is the value the stack slot happens to hold;
\* aPayload is the frame as sent: its octets and, kept apart, its CSL IE
otSimSendRadioCommEvent(n, kind, aPayload, d) ==
    otSimSendEvent(n, [OutEvent("RADIO_COMM_START", d, kind, n.sLastTxEventData.mError)
                       EXCEPT !.mPsdu = aPayload.mPsdu, !.mCslIe = aPayload.mCslIe])

otSimSendRadioCommInterferenceEvent(n, d) ==
    otSimSendEvent(n, OutEvent("RADIO_COMM_START", d, "intf", n.sLastTxEventData.mError))

(***************************************************************************)
(* alarm.c                                                                 *)
(***************************************************************************)
\* C integer division truncates toward zero
CDiv(a, b) == IF a >= 0 THEN a \div b ELSE -((-a) \div b)

\* a faulty variant: the whole microseconds moved into sNow are not taken
\* out of the picosecond remainder
platformAlarmAdvanceNowKeepsRemainder(n, aDelta) ==
    LET now1 == n.sNow + aDelta
        ps1  == n.sDriftPicoSec + n.sClockDriftPpm * aDelta
        adjust == CDiv(ps1, PS_PER_US)
    IN  IF ps1 >= PS_PER_US \/ ps1 <= -PS_PER_US
        THEN [n EXCEPT !.sNow = now1 + adjust, !.sDriftPicoSec = ps1]
        ELSE [n EXCEPT !.sNow = now1, !.sDriftPicoSec = ps1]

\* a faulty variant: the drift is accumulated but never moved into the clock
platformAlarmAdvanceNowWithoutDrift(n, aDelta) ==
    [n EXCEPT !.sNow = n.sNow + aDelta,
              !.sDriftPicoSec = (n.sDriftPicoSec + n.sClockDriftPpm * aDelta) % PS_PER_US]

platformAlarmAdvanceNow(n, aDelta) ==
    LET now1 == n.sNow + aDelta
        ps1  == n.sDriftPicoSec + n.sClockDriftPpm * aDelta
        adjust == CDiv(ps1, PS_PER_US)
    IN  IF ps1 >= PS_PER_US \/ ps1 <= -PS_PER_US
        THEN [n EXCEPT !.sNow = now1 + adjust,
                       !.sDriftPicoSec = ps1 - adjust * PS_PER_US]
        ELSE [n EXCEPT !.sNow = now1, !.sDriftPicoSec = ps1]

platformAlarmSetClockDrift(n, aDrift) == [n EXCEPT !.sClockDriftPpm = aDrift]

platformAlarmGetClockDrift(n) == n.sClockDriftPpm

(***************************************************************************)
(* 32-bit words.  A uint32_t is held as the signed integer with the same   *)
(* bits (0xFFFFFFFF is -1), so that the cast to int32_t is the identity    *)
(* and the arithmetic modulo 2^32 wraps at INT32_MAX.  The 64-bit clock    *)
(* sNow is held as its distance from the nearest multiple of               *)
(* 2^32 * US_PER_MS, the common period of the two 32-bit views: the        *)
(* clock itself up to INT32_MAX, a negative number just before both views  *)
(* wrap to 0.                                                              *)
(***************************************************************************)
\* (uint32_t)(a + b)
Uint32Add(a, b) ==
    IF a > 0 /\ b > INT32_MAX - a
    THEN (a - INT32_MAX - 1) + (b - INT32_MAX - 1)
    ELSE IF a < 0 /\ b < (-INT32_MAX - 1) - a
    THEN (a + INT32_MAX + 1) + (b + INT32_MAX + 1)
    ELSE a + b

\* (int32_t)(a - b)
Int32Sub(a, b) ==
    IF a >= 0 /\ b < 0 /\ a > INT32_MAX + b
    THEN (a - INT32_MAX - 1) - (b + INT32_MAX + 1)
    ELSE IF a < 0 /\ b > 0 /\ a < b - INT32_MAX - 1
    THEN (a + INT32_MAX + 1) - (b - INT32_MAX - 1)
    ELSE a - b

\* a <= b for uint32_t
Uint32LessEq(a, b) ==
    IF (a >= 0) = (b >= 0) THEN a <= b ELSE a >= 0

\* a % m on uint32_t, for 0 < m <= INT32_MAX
Uint32Mod(a, m) ==
    IF a >= 0
    THEN a % m
    ELSE (((a + INT32_MAX + 1) % m) + (INT32_MAX % m) + 1) % m

otPlatAlarmMilliGetNow(n) == n.sNow \div US_PER_MS
otPlatAlarmMicroGetNow(n) == n.sNow
otPlatTimeGet(n) == n.sNow

\* a next deadline that looks at the millisecond alarm only
platformAlarmGetNextMilliOnly(n) ==
    LET milli == Int32Sub(n.sMsAlarm, otPlatAlarmMilliGetNow(n))
    IN  IF n.sIsMsRunning
        THEN (IF milli < 0 THEN 0 ELSE milli * US_PER_MS)
        ELSE INT64_MAX

platformAlarmGetNext(n) ==
    LET milli == Int32Sub(n.sMsAlarm, otPlatAlarmMilliGetNow(n))
        r1 == IF n.sIsMsRunning
              THEN (IF milli < 0 THEN 0 ELSE milli * US_PER_MS)
              ELSE INT64_MAX
        micro == Int32Sub(n.sUsAlarm, otPlatAlarmMicroGetNow(n))
    IN  IF n.sIsUsRunning
        THEN (IF micro < 0 THEN 0 ELSE IF r1 > micro THEN micro ELSE r1)
        ELSE r1

\* a faulty variant: the deadlines are compared as unsigned words
platformAlarmProcessUnsigned(n) ==
    LET msDue == n.sIsMsRunning /\ Uint32LessEq(n.sMsAlarm, otPlatAlarmMilliGetNow(n))
        n1 == IF msDue
              THEN Upcall([n EXCEPT !.sIsMsRunning = FALSE], PlainUpcall("AlarmMilliFired"))
              ELSE n
        usDue == n1.sIsUsRunning /\ Uint32LessEq(n1.sUsAlarm, otPlatAlarmMicroGetNow(n1))
    IN  IF usDue
        THEN Upcall([n1 EXCEPT !.sIsUsRunning = FALSE], PlainUpcall("AlarmMicroFired"))
        ELSE n1

platformAlarmProcess(n) ==
    LET msDue == n.sIsMsRunning /\ Int32Sub(n.sMsAlarm, otPlatAlarmMilliGetNow(n)) <= 0
        n1 == IF msDue
              THEN Upcall([n EXCEPT !.sIsMsRunning = FALSE], PlainUpcall("AlarmMilliFired"))
              ELSE n
        usDue == n1.sIsUsRunning /\ Int32Sub(n1.sUsAlarm, otPlatAlarmMicroGetNow(n1)) <= 0
    IN  IF usDue
        THEN Upcall([n1 EXCEPT !.sIsUsRunning = FALSE], PlainUpcall("AlarmMicroFired"))
        ELSE n1

(***************************************************************************)
(* radio.c: state helpers.                                                 *)
(***************************************************************************)
\* a faulty variant: every deadline is one microsecond early
setRadioSubStateOneEarly(n, aState, timeToRemainInState) ==
    [n EXCEPT !.sSubState = aState,
              !.sNextRadioEventTime =
                  IF timeToRemainInState = UNDEFINED_TIME_US
                  THEN UNDEFINED_TIME_US
                  ELSE otPlatTimeGet(n) + timeToRemainInState - 1]

setRadioSubState(n, aState, timeToRemainInState) ==
    [n EXCEPT !.sSubState = aState,
              !.sNextRadioEventTime =
                  IF timeToRemainInState = UNDEFINED_TIME_US
                  THEN UNDEFINED_TIME_US
                  ELSE otPlatTimeGet(n) + timeToRemainInState]

setRadioState(n, aState) ==
    LET n1 == IF aState # n.sState /\ aState = "DISABLED"
              THEN setRadioSubState(n, "STARTUP", RFSIM_STARTUP_TIME_US)
              ELSE n
    IN  [n1 EXCEPT !.sState = aState]

applyRadioDelayedSleep(n) ==
    IF n.sDelaySleep
    THEN [setRadioState(n, "SLEEP") EXCEPT !.sDelaySleep = FALSE]
    ELSE n

\* a faulty variant: the report is made in the interferer mode too
signalRadioTxDoneInAnyMode(n, aAckFrame, aError) ==
    LET n1 == IF n.sState = "TRANSMIT" THEN setRadioState(n, "RECEIVE") ELSE n
    IN  Upcall(n1, TxDoneUpcall(aAckFrame, aError))

signalRadioTxDone(n, aAckFrame, aError) ==
    IF n.sTxInterfererLevel > 0
    THEN n
    ELSE LET n1 == IF n.sState = "TRANSMIT" THEN setRadioState(n, "RECEIVE") ELSE n
         IN  Upcall(n1, TxDoneUpcall(aAckFrame, aError))

platformRadioIsTransmitPending(n) == n.sState = "TRANSMIT" /\ ~n.sTxWait

platformRadioIsBusy(n) ==
    n.sState \in {"TRANSMIT", "RECEIVE"} /\ n.sSubState # "READY"

RxSubStates == {"RX_FRAME_ONGOING", "RX_ACK_TX_ONGOING", "RX_AIFS_WAIT"}

IfsTime(n) ==
    IF n.sTransmitFrame.mLength > OT_RADIO_aMaxSifsFrameSize
    THEN OT_RADIO_LIFS_TIME_US
    ELSE OT_RADIO_SIFS_TIME_US

(***************************************************************************)
(* radio.c: the radio API called by the stack.                             *)
(***************************************************************************)
otPlatRadioIsEnabled(n) == n.sState # "DISABLED"

otPlatRadioEnable(n) ==
    IF ~otPlatRadioIsEnabled(n)
    THEN setRadioSubState(setRadioState([n EXCEPT !.sDelaySleep = FALSE], "SLEEP"),
                          "STARTUP", RFSIM_STARTUP_TIME_US)
    ELSE n

otPlatRadioDisableError(n) ==
    IF otPlatRadioIsEnabled(n) /\ n.sState # "SLEEP" THEN "INVALID_STATE" ELSE "NONE"

\* a faulty variant: the radio is disabled from any enabled state
otPlatRadioDisableFromAnyState(n) ==
    IF otPlatRadioIsEnabled(n)
    THEN setRadioState([n EXCEPT !.sDelaySleep = FALSE], "DISABLED")
    ELSE n

otPlatRadioDisable(n) ==
    IF otPlatRadioIsEnabled(n) /\ n.sState = "SLEEP"
    THEN setRadioState([n EXCEPT !.sDelaySleep = FALSE], "DISABLED")
    ELSE n

otPlatRadioSleepError(n) ==
    IF n.sSubState \in RxSubStates THEN "BUSY"
    ELSE IF n.sState \in {"SLEEP", "RECEIVE"} THEN "NONE"
    ELSE "INVALID_STATE"

otPlatRadioSleep(n) ==
    IF n.sSubState \in RxSubStates
    THEN [n EXCEPT !.sDelaySleep = TRUE]
    ELSE IF n.sState \in {"SLEEP", "RECEIVE"}
    THEN setRadioState([n EXCEPT !.sDelaySleep = FALSE], "SLEEP")
    ELSE n

otPlatRadioReceiveError(n) ==
    IF n.sState # "DISABLED" THEN "NONE" ELSE "INVALID_STATE"

\* a faulty variant: the radio leaves sleep without a ramp-up time
otPlatRadioReceiveWithoutRampUp(n, aChannel) ==
    IF n.sState # "DISABLED"
    THEN setRadioState([n EXCEPT !.sTxWait = FALSE,
                                 !.sDelaySleep = FALSE,
                                 !.sReceiveFrame.mChannel = aChannel,
                                 !.sCurrentChannel = aChannel],
                       "RECEIVE")
    ELSE n

otPlatRadioReceive(n, aChannel) ==
    IF n.sState # "DISABLED"
    THEN LET n1 == IF n.sState = "SLEEP" /\ n.sSubState # "STARTUP"
                   THEN setRadioSubState(n, "STARTUP", RFSIM_RAMPUP_TIME_US)
                   ELSE n
         IN  setRadioState([n1 EXCEPT !.sTxWait = FALSE,
                                      !.sDelaySleep = FALSE,
                                      !.sReceiveFrame.mChannel = aChannel,
                                      !.sCurrentChannel = aChannel],
                           "RECEIVE")
    ELSE n

otPlatRadioTransmitError(n) ==
    IF n.sState = "RECEIVE" THEN "NONE" ELSE "INVALID_STATE"

\* aFrame is the transmit buffer the stack has filled for this call
otPlatRadioTransmit(n, aFrame) ==
    IF n.sState = "RECEIVE"
    THEN setRadioState([n EXCEPT !.sTransmitFrame = aFrame,
                                 !.sDelaySleep = FALSE,
                                 !.sCurrentChannel = aFrame.mChannel],
                       "TRANSMIT")
    ELSE n

otPlatRadioSetTransmitPower(n, aPower) == [n EXCEPT !.sTxPower = aPower]

otPlatRadioEnableCsl(n, aCslPeriod) == [n EXCEPT !.sCslPeriod = aCslPeriod]

otPlatRadioUpdateCslSampleTime(n, aCslSampleTime) ==
    [n EXCEPT !.sCslSampleTime = aCslSampleTime]

otPlatRadioSetChannelMaxTransmitPowerError(aChannel) ==
    IF aChannel >= kMinChannel /\ aChannel <= kMaxChannel THEN "NONE" ELSE "INVALID_ARGS"

otPlatRadioSetChannelMaxTransmitPower(n, aChannel, aMaxPower) ==
    IF aChannel >= kMinChannel /\ aChannel <= kMaxChannel
    THEN [n EXCEPT !.sChannelMaxTransmitPower[aChannel] = aMaxPower]
    ELSE n

\* the capabilities of the radio: OT_RADIO_CAPS_TRANSMIT_SEC from Thread 1.2
\* on, OT_RADIO_CAPS_NONE before; no build sets OT_RADIO_CAPS_ENERGY_SCAN
gRadioCaps == {"OT_RADIO_CAPS_TRANSMIT_SEC"}

otPlatRadioEnergyScanError(n) ==
    IF "OT_RADIO_CAPS_ENERGY_SCAN" \notin gRadioCaps THEN "NOT_IMPLEMENTED"
    ELSE IF n.sEnergyScanning THEN "BUSY"
    ELSE "NONE"

otPlatRadioEnergyScan(n, aScanChannel, aScanDuration) ==
    IF otPlatRadioEnergyScanError(n) = "NONE"
    THEN [n EXCEPT !.sEnergyScanning = TRUE,
                   !.sEnergyScanEndTime = otPlatAlarmMilliGetNow(n) + aScanDuration]
    ELSE n

otPlatRadioSetPromiscuous(n, aEnable) == [n EXCEPT !.sPromiscuous = aEnable]

(***************************************************************************)
(* radio.c: frame transmission and reception.                              *)
(***************************************************************************)
\* one step of the frame check sequence, over 16-bit values
crc16_citt(aFcs, aByte) ==
    LET sFcsTable == <<
               0, 4489, 8978, 12955, 17956, 22445, 25910, 29887, 35912, 40385, 44890, 48851,
               51820, 56293, 59774, 63735, 4225, 264, 13203, 8730, 22181, 18220, 30135, 25662,
               40137, 36160, 49115, 44626, 56045, 52068, 63999, 59510, 8450, 12427, 528, 5017,
               26406, 30383, 17460, 21949, 44362, 48323, 36440, 40913, 60270, 64231, 51324, 55797,
               12675, 8202, 4753, 792, 30631, 26158, 21685, 17724, 48587, 44098, 40665, 36688,
               64495, 60006, 55549, 51572, 16900, 21389, 24854, 28831, 1056, 5545, 10034, 14011,
               52812, 57285, 60766, 64727, 34920, 39393, 43898, 47859, 21125, 17164, 29079, 24606,
               5281, 1320, 14259, 9786, 57037, 53060, 64991, 60502, 39145, 35168, 48123, 43634,
               25350, 29327, 16404, 20893, 9506, 13483, 1584, 6073, 61262, 65223, 52316, 56789,
               43370, 47331, 35448, 39921, 29575, 25102, 20629, 16668, 13731, 9258, 5809, 1848,
               65487, 60998, 56541, 52564, 47595, 43106, 39673, 35696, 33800, 38273, 42778, 46739,
               49708, 54181, 57662, 61623, 2112, 6601, 11090, 15067, 20068, 24557, 28022, 31999,
               38025, 34048, 47003, 42514, 53933, 49956, 61887, 57398, 6337, 2376, 15315, 10842,
               24293, 20332, 32247, 27774, 42250, 46211, 34328, 38801, 58158, 62119, 49212, 53685,
               10562, 14539, 2640, 7129, 28518, 32495, 19572, 24061, 46475, 41986, 38553, 34576,
               62383, 57894, 53437, 49460, 14787, 10314, 6865, 2904, 32743, 28270, 23797, 19836,
               50700, 55173, 58654, 62615, 32808, 37281, 41786, 45747, 19012, 23501, 26966, 30943,
               3168, 7657, 12146, 16123, 54925, 50948, 62879, 58390, 37033, 33056, 46011, 41522,
               23237, 19276, 31191, 26718, 7393, 3432, 16371, 11898, 59150, 63111, 50204, 54677,
               41258, 45219, 33336, 37809, 27462, 31439, 18516, 23005, 11618, 15595, 3696, 8185,
               63375, 58886, 54429, 50452, 45483, 40994, 37561, 33584, 31687, 27214, 22741, 18780,
               15843, 11370, 7921, 3960>>
        RECURSIVE Xor(_, _)
        Xor(a, b) == IF a = 0 THEN b
                     ELSE IF b = 0 THEN a
                     ELSE ((a + b) % 2) + 2 * Xor(a \div 2, b \div 2)
    IN  Xor(aFcs \div 256, sFcsTable[(Xor(aFcs, aByte) % 256) + 1])

\* the octets of the buffer with the check sequence of a frame of aLength
\* octets written into its last two octets; aLength is 2 at least
radioComputeCrc(mPsdu, aLength) ==
    LET crc_offset == aLength - 2
        RECURSIVE crcUpTo(_)
        crcUpTo(i) == IF i = 0 THEN 0 ELSE crc16_citt(crcUpTo(i - 1), mPsdu[i])
        crc == crcUpTo(crc_offset)
    IN  [mPsdu EXCEPT ![crc_offset + 1] = crc % 256, ![crc_offset + 2] = crc \div 256]

\* Thread 1.2 and later; sKeyId is 0, as the stack has set no key. What the
\* call writes into a frame it accepts (key index, frame counter, AES-CCM)
\* is the work of the MAC utilities and left out.
radioProcessTransmitSecurity(aFrame) ==
    LET sKeyId == 0
    IN  IF aFrame.keyId = -1
        THEN "NONE"
        ELSE IF aFrame.isAck
        THEN IF aFrame.keyId = 0
             THEN "FAILED"
             ELSE IF aFrame.keyId \in {sKeyId, sKeyId - 1, sKeyId + 1}
             THEN "NONE"
             ELSE "SECURITY"
        ELSE "NONE"

\* the table is indexed with the channel of the frame, which every frame the
\* model transmits has between kMinChannel and kMaxChannel
radioTransmit(n, kind, aFrame, d) ==
    LET frameDurationUs ==
            (6 + aFrame.mLength) * OT_RADIO_SYMBOLS_PER_OCTET * OT_RADIO_SYMBOL_TIME
        maxPower == n.sChannelMaxTransmitPower[aFrame.mChannel]
        n1 == [n EXCEPT !.sLastTxEventData =
                  [mChannel |-> aFrame.mChannel,
                   mPower |-> IF n.sTxPower < maxPower THEN n.sTxPower ELSE maxPower,
                   mError |-> "NONE", mDuration |-> frameDurationUs]]
    IN  otSimSendRadioCommEvent(n1, kind,
                                [mPsdu |-> SubSeq(aFrame.mPsdu, 1, aFrame.mLength),
                                 mCslIe |-> aFrame.mCslIe], d)

radioTransmitInterference(n, frameDurationUs, d) ==
    LET n1 == [n EXCEPT !.sLastTxEventData =
                  [mChannel |-> n.sOngoingOperationChannel, mPower |-> n.sTxPower,
                   mError |-> "INTF", mDuration |-> frameDurationUs]]
    IN  otSimSendRadioCommInterferenceEvent(n1, d)

\* a faulty variant: the phase is rounded down
getCslPhaseRoundedDown(n) ==
    LET OT_US_PER_TEN_SYMBOLS == 10 * OT_RADIO_SYMBOL_TIME
        txMhrStartTime == Uint32Add(otPlatAlarmMicroGetNow(n), 12 * OT_RADIO_SYMBOL_TIME)
        cslPeriodInUs == n.sCslPeriod * OT_US_PER_TEN_SYMBOLS
        diff == (Uint32Mod(n.sCslSampleTime, cslPeriodInUs)
                 - Uint32Mod(txMhrStartTime, cslPeriodInUs) + cslPeriodInUs) % cslPeriodInUs
    IN  (diff \div OT_US_PER_TEN_SYMBOLS) % 65536

\* the time, in units of ten symbols and rounded up, from the start of the
\* MAC header of a frame whose preamble starts now to the next CSL sample;
\* the CSL period is small enough for its microseconds to fit 31 bits
getCslPhase(n) ==
    LET OT_US_PER_TEN_SYMBOLS == 10 * OT_RADIO_SYMBOL_TIME
        OT_RADIO_SHR_PHR_DURATION_US ==
            OT_RADIO_SHR_PHR_LENGTH_BYTES * OT_RADIO_SYMBOLS_PER_OCTET * OT_RADIO_SYMBOL_TIME
        txMhrStartTime == Uint32Add(otPlatAlarmMicroGetNow(n), OT_RADIO_SHR_PHR_DURATION_US)
        cslPeriodInUs == n.sCslPeriod * OT_US_PER_TEN_SYMBOLS
        diff == (Uint32Mod(n.sCslSampleTime, cslPeriodInUs)
                 - Uint32Mod(txMhrStartTime, cslPeriodInUs) + cslPeriodInUs) % cslPeriodInUs
        up == IF diff % OT_US_PER_TEN_SYMBOLS > 0 THEN diff + OT_US_PER_TEN_SYMBOLS ELSE diff
    IN  (up \div OT_US_PER_TEN_SYMBOLS) % 65536

\* the MAC utility writes period and phase into the CSL IE of a frame that
\* has one and leaves a frame without one as it is
otMacFrameSetCslIe(aFrame, aCslPeriod, aCslPhase) ==
    IF aFrame.mCslIe = <<>>
    THEN aFrame
    ELSE [aFrame EXCEPT !.mCslIe = <<aCslPeriod, aCslPhase>>]

radioSendMessage(n, d) ==
    LET n0 == IF n.sCslPeriod > 0 /\ ~n.sTransmitFrame.mIsHeaderUpdated
              THEN [n EXCEPT !.sTransmitFrame =
                        otMacFrameSetCslIe(@, n.sCslPeriod % 65536, getCslPhase(n))]
              ELSE n
    IN  IF radioProcessTransmitSecurity(n0.sTransmitFrame) # "NONE"
        THEN n0
        ELSE LET n1 == Upcall(n0, PlainUpcall("TxStarted"))
                 n2 == [n1 EXCEPT !.sTransmitFrame.mPsdu =
                                      radioComputeCrc(@, n1.sTransmitFrame.mLength)]
             IN  radioTransmit(n2, "frame", n2.sTransmitFrame, d)

\* The MAC utility builds the Imm-Ack (frame control 0x0002, sequence
\* number) for a 2006 frame and the Enh-Ack for a 2015 frame, of which the
\* model keeps frame control, sequence number, security control and key
\* index. It writes the header into the static buffer of the ACK and leaves
\* the two octets of the check sequence as they are.
radioPrepareAck(n) ==
    LET rx == n.sReceiveFrame
        kEnhAckLength == 7
        buffer == [i \in 1..kEnhAckLength |->
                      IF i <= Len(n.sAckFrame.mPsdu) THEN n.sAckFrame.mPsdu[i] ELSE 0]
        immAck == [Frame(rx.mChannel, 5, TRUE, FALSE, FALSE, rx.seq)
                   EXCEPT !.mPsdu = [buffer EXCEPT ![1] = 2, ![2] = 0, ![3] = rx.seq]]
        enhAck == [Frame(rx.mChannel, kEnhAckLength, TRUE, FALSE, FALSE, rx.seq)
                   EXCEPT !.isVersion2015 = TRUE, !.keyId = rx.keyId,
                          !.mCslIe = IF n.sCslPeriod > 0
                                     THEN <<n.sCslPeriod % 65536, getCslPhase(n)>>
                                     ELSE <<>>,
                          !.mPsdu = [buffer EXCEPT
                                       ![1] = IF rx.keyId = -1 THEN 2 ELSE 10,
                                       ![2] = 32, ![3] = rx.seq,
                                       ![4] = IF rx.keyId = -1 THEN 0 ELSE 13,
                                       ![5] = IF rx.keyId = -1 THEN 0 ELSE rx.keyId]]
        ack == IF rx.isVersion2015 THEN enhAck ELSE immAck
        n1 == [n EXCEPT !.sAckFrame = ack]
    IN  IF ack.keyId # -1 /\ radioProcessTransmitSecurity(ack) # "NONE"
        THEN n1
        ELSE [n1 EXCEPT !.sAckFrame.mPsdu = radioComputeCrc(@, ack.mLength)]

radioProcessFrame(n, aError) ==
    IF n.sPromiscuous
    THEN Upcall(n, ReceiveDoneUpcall(aError))
    ELSE IF ~n.sReceiveFrame.toMe
    THEN n
    ELSE LET n1 == IF n.sReceiveFrame.ackReq /\ aError = "NONE"
                   THEN radioPrepareAck(n)
                   ELSE n
         IN  Upcall(n1, ReceiveDoneUpcall(aError))

\* a faulty variant: the wait for the ACK is not ended by the received frame
radioReceiveKeepsTxWait(n, aError) ==
    LET isAck == n.sReceiveFrame.isAck
    IN  IF n.sState \notin {"RECEIVE", "TRANSMIT"}
        THEN n
        ELSE IF n.sTxWait /\ n.sTransmitFrame.ackReq
        THEN signalRadioTxDone(n, isAck,
                               IF isAck /\ aError = "NONE"
                                        /\ n.sReceiveFrame.seq = n.sTransmitFrame.seq
                               THEN "NONE" ELSE "NO_ACK")
        ELSE IF ~isAck \/ n.sPromiscuous
        THEN radioProcessFrame(n, aError)
        ELSE n

radioReceive(n, aError) ==
    LET isAck == n.sReceiveFrame.isAck
    IN  IF n.sState \notin {"RECEIVE", "TRANSMIT"}
        THEN n
        ELSE IF n.sTxWait /\ n.sTransmitFrame.ackReq
        THEN LET isAwaitedAckReceived ==
                     /\ isAck
                     /\ aError = "NONE"
                     /\ n.sReceiveFrame.seq = n.sTransmitFrame.seq
             IN  signalRadioTxDone([n EXCEPT !.sTxWait = FALSE], isAck,
                                   IF isAwaitedAckReceived THEN "NONE" ELSE "NO_ACK")
        ELSE IF ~isAck \/ n.sPromiscuous
        THEN radioProcessFrame(n, aError)
        ELSE n

startCcaForTransmission(n) ==
    otSimSendRadioChanSampleEvent([n EXCEPT !.sTxWait = TRUE,
                                            !.sLastTxEventData.mError = "NONE"])

(***************************************************************************)
(* radio.c: handlers of the simulator's radio events.                      *)
(***************************************************************************)
platformRadioRxStart(n, aRxParams) ==
    IF /\ n.sOngoingOperationChannel = aRxParams.mChannel
       /\ n.sState \in {"RECEIVE", "TRANSMIT"}
       /\ n.sSubState \in {"READY", "IFS_WAIT", "TX_AIFS_WAIT"}
       /\ aRxParams.mError = "NONE"
    THEN IF n.sSubState = "TX_AIFS_WAIT"
         THEN setRadioSubState(n, "TX_ACK_RX_ONGOING", aRxParams.mDuration + FAILSAFE_TIME_US)
         ELSE setRadioSubState(n, "RX_FRAME_ONGOING", aRxParams.mDuration + FAILSAFE_TIME_US)
    ELSE n

\* a faulty variant: the end of a reception is handled in every sub-state
platformRadioRxDoneInAnySubState(n, aFrame, aRxParams) ==
    radioReceive(setRadioSubState([n EXCEPT !.sReceiveFrame =
                                       [aFrame EXCEPT !.mChannel = n.sReceiveFrame.mChannel]],
                                  "IFS_WAIT", n.sTurnaroundTimeUs),
                 aRxParams.mError)

\* a faulty variant: a frame received with an error is acknowledged as well
platformRadioRxDoneAcksErrors(n, aFrame, aRxParams) ==
    IF n.sSubState \notin {"RX_FRAME_ONGOING", "TX_ACK_RX_ONGOING"}
    THEN n
    ELSE LET n1 == [n EXCEPT !.sReceiveFrame =
                        [aFrame EXCEPT !.mChannel = n.sReceiveFrame.mChannel]]
             n2 == IF /\ n1.sSubState = "RX_FRAME_ONGOING"
                      /\ aFrame.ackReq /\ ~aFrame.isAck /\ aFrame.toMe
                   THEN setRadioSubState(n1, "RX_AIFS_WAIT", OT_RADIO_AIFS_TIME_US)
                   ELSE IF n1.sSubState = "RX_FRAME_ONGOING"
                   THEN applyRadioDelayedSleep(
                            setRadioSubState(n1, "IFS_WAIT", n1.sTurnaroundTimeUs))
                   ELSE setRadioSubState(n1, "IFS_WAIT", IfsTime(n1))
         IN  radioReceive(n2, aRxParams.mError)

platformRadioRxDone(n, aFrame, aRxParams) ==
    IF n.sSubState \notin {"RX_FRAME_ONGOING", "TX_ACK_RX_ONGOING"}
    THEN n
    ELSE LET n1 == [n EXCEPT !.sReceiveFrame =
                        [aFrame EXCEPT !.mChannel = n.sReceiveFrame.mChannel]]
             n2 == IF /\ n1.sSubState = "RX_FRAME_ONGOING"
                      /\ aFrame.ackReq /\ ~aFrame.isAck /\ aFrame.toMe
                      /\ aRxParams.mError = "NONE"
                   THEN setRadioSubState(n1, "RX_AIFS_WAIT", OT_RADIO_AIFS_TIME_US)
                   ELSE IF n1.sSubState = "RX_FRAME_ONGOING"
                   THEN applyRadioDelayedSleep(
                            setRadioSubState(n1, "IFS_WAIT", n1.sTurnaroundTimeUs))
                   ELSE setRadioSubState(n1, "IFS_WAIT", IfsTime(n1))
         IN  radioReceive(n2, aRxParams.mError)

\* a faulty variant: a sample equal to the threshold counts as a clear channel
platformRadioCcaDoneInclusive(n, aChanData) ==
    IF aChanData.mChannel # n.sTransmitFrame.mChannel \/ n.sSubState # "TX_CCA"
    THEN n
    ELSE IF aChanData.mPower <= n.sCcaEdThresh \/ aChanData.mPower = OT_RADIO_RSSI_INVALID
    THEN setRadioSubState(n, "TX_CCA_TO_TX", n.sTurnaroundTimeUs)
    ELSE LET n1 == [n EXCEPT !.sTxWait = FALSE,
                             !.sLastTxEventData.mError = "CHANNEL_ACCESS_FAILURE"]
         IN  IF n1.sTxInterfererLevel = 0
             THEN signalRadioTxDone(setRadioSubState(n1, "READY", UNDEFINED_TIME_US),
                                    FALSE, n1.sLastTxEventData.mError)
             ELSE setRadioSubState(n1, "READY", 1)

platformRadioCcaDone(n, aChanData) ==
    IF aChanData.mChannel # n.sTransmitFrame.mChannel \/ n.sSubState # "TX_CCA"
    THEN n
    ELSE IF aChanData.mPower < n.sCcaEdThresh \/ aChanData.mPower = OT_RADIO_RSSI_INVALID
    THEN setRadioSubState(n, "TX_CCA_TO_TX", n.sTurnaroundTimeUs)
    ELSE LET n1 == [n EXCEPT !.sTxWait = FALSE,
                             !.sLastTxEventData.mError = "CHANNEL_ACCESS_FAILURE"]
         IN  IF n1.sTxInterfererLevel = 0
             THEN signalRadioTxDone(setRadioSubState(n1, "READY", UNDEFINED_TIME_US),
                                    FALSE, n1.sLastTxEventData.mError)
             ELSE setRadioSubState(n1, "READY", 1)

platformRadioTxDone(n, aTxDoneParams) ==
    IF n.sSubState = "RX_ACK_TX_ONGOING"
    THEN setRadioSubState(n, "RX_TX_TO_RX", n.sTurnaroundTimeUs)
    ELSE IF n.sSubState = "TX_FRAME_ONGOING"
    THEN IF ~n.sTransmitFrame.ackReq \/ aTxDoneParams.mError # "NONE"
         THEN LET n1 == setRadioSubState(n, "TX_TX_TO_RX", n.sTurnaroundTimeUs)
              IN  IF n1.sTxInterfererLevel = 0
                  THEN signalRadioTxDone(n1, FALSE, aTxDoneParams.mError)
                  ELSE n1
         ELSE setRadioSubState(n, "TX_TX_TO_AIFS", n.sTurnaroundTimeUs)
    ELSE n

platformRadioRfSimParamGet(n, params) ==
    CASE params.mParam = "RX_SENSITIVITY" ->
           otSimSendRfSimParamRespEvent(n, params.mParam, n.sRxSensitivity)
      [] params.mParam = "CCA_THRESHOLD" ->
           otSimSendRfSimParamRespEvent(n, params.mParam, n.sCcaEdThresh)
      [] params.mParam = "CSL_ACCURACY" ->
           otSimSendRfSimParamRespEvent(n, params.mParam, n.sCslAccuracy)
      [] params.mParam = "CSL_UNCERTAINTY" ->
           otSimSendRfSimParamRespEvent(n, params.mParam, n.sCslUncertainty)
      [] params.mParam = "TX_INTERFERER" ->
           otSimSendRfSimParamRespEvent(n, params.mParam, n.sTxInterfererLevel)
      [] params.mParam = "CLOCK_DRIFT" ->
           otSimSendRfSimParamRespEvent(n, params.mParam, platformAlarmGetClockDrift(n))
      [] OTHER ->
           otSimSendRfSimParamRespEvent(n, "UNKNOWN", 0)

\* the casts (int8_t) and (uint8_t) of a 32-bit value
Int8(v) == ((v + 128) % 256) - 128
UInt8(v) == v % 256

platformRadioRfSimParamSet(n, params) ==
    LET n1 ==
          CASE params.mParam = "RX_SENSITIVITY" ->
                 [n EXCEPT !.sRxSensitivity = Int8(params.mValue)]
            [] params.mParam = "CCA_THRESHOLD" ->
                 [n EXCEPT !.sCcaEdThresh = Int8(params.mValue)]
            [] params.mParam = "CSL_ACCURACY" ->
                 [n EXCEPT !.sCslAccuracy = UInt8(params.mValue)]
            [] params.mParam = "CSL_UNCERTAINTY" ->
                 [n EXCEPT !.sCslUncertainty = UInt8(params.mValue)]
            [] params.mParam = "TX_INTERFERER" ->
                 LET lvl == IF UInt8(params.mValue) > 100 THEN 100
                            ELSE UInt8(params.mValue)
                 IN  [n EXCEPT !.sTxInterfererLevel = lvl,
                               !.sTurnaroundTimeUs =
                                   IF lvl > 0 THEN OT_RADIO_WIFI_SLOT_TIME_US
                                   ELSE RFSIM_TURNAROUND_TIME_US]
            [] params.mParam = "CLOCK_DRIFT" ->
                 platformAlarmSetClockDrift(n, Int8(params.mValue))
            [] OTHER -> n
    IN  platformRadioRfSimParamGet(n1, params)

\* the values compared with the last report
RadioStateToReport(n) ==
    [state |-> n.sState, channel |-> n.sOngoingOperationChannel,
     subState |-> n.sSubState, eventTime |-> n.sNextRadioEventTime,
     rxSensitivity |-> n.sRxSensitivity]

\* the body of the if: remember what is reported, build and send the report
SendRadioStateReport(n) ==
    LET energyState ==
            IF n.sSubState \in {"TX_FRAME_ONGOING", "RX_ACK_TX_ONGOING"} THEN "TRANSMIT"
            ELSE IF n.sState = "TRANSMIT" \/ n.sSubState = "RX_FRAME_ONGOING"
            THEN "RECEIVE"
            ELSE n.sState
        stateReport ==
            [mChannel |-> n.sOngoingOperationChannel, mTxPower |-> n.sTxPower,
             mRxSensitivity |-> n.sRxSensitivity, mEnergyState |-> energyState,
             mSubState |-> n.sSubState, mState |-> n.sState]
        delayUntilNextRadioState ==
            IF n.sNextRadioEventTime > otPlatTimeGet(n)
            THEN n.sNextRadioEventTime - otPlatTimeGet(n)
            ELSE 0
    IN  otSimSendRadioStateEvent([n EXCEPT !.sLastReported = RadioStateToReport(n)],
                                 stateReport, delayUntilNextRadioState)

\* a report that is only sent when it is forced
platformRadioReportStateToSimulatorOnlyForced(n, aForce) ==
    IF aForce THEN SendRadioStateReport(n) ELSE n

platformRadioReportStateToSimulator(n, aForce) ==
    IF aForce \/ n.sLastReported # RadioStateToReport(n)
    THEN SendRadioStateReport(n)
    ELSE n

(***************************************************************************)
(* radio.c: the timer-driven state machines.  d is the value of the        *)
(* unassigned delay field of a RADIO_COMM_START sent by the step.          *)
(***************************************************************************)
platformRadioProcess(n, d) ==
    IF n.sTxInterfererLevel > 0
    THEN n
    ELSE
    LET n1 == IF platformRadioIsTransmitPending(n) /\ n.sSubState \in RxSubStates
              THEN signalRadioTxDone(n, FALSE, "CHANNEL_ACCESS_FAILURE")
              ELSE n
        ifsTime == IfsTime(n1)
        sub == n1.sSubState
    IN  IF otPlatTimeGet(n1) < n1.sNextRadioEventTime
        THEN n1
        ELSE
        CASE sub = "STARTUP" ->
               setRadioSubState(n1, "READY", UNDEFINED_TIME_US)
          [] sub = "READY" ->
               LET n2 == [n1 EXCEPT !.sOngoingOperationChannel = n1.sCurrentChannel]
               IN  IF platformRadioIsTransmitPending(n2)
                   THEN startCcaForTransmission(
                            setRadioSubState(n2, "TX_CCA",
                                             OT_RADIO_CCA_TIME_US + FAILSAFE_TIME_US))
                   ELSE n2
          [] sub = "TX_CCA" ->
               [setRadioSubState(
                    signalRadioTxDone(n1, FALSE, "CHANNEL_ACCESS_FAILURE"),
                    "READY", UNDEFINED_TIME_US)
                EXCEPT !.sTxWait = FALSE]
          [] sub = "TX_CCA_TO_TX" ->
               LET n2 == radioSendMessage(n1, d)
               IN  setRadioSubState(n2, "TX_FRAME_ONGOING",
                                    n2.sLastTxEventData.mDuration + FAILSAFE_TIME_US)
          [] sub = "TX_FRAME_ONGOING" ->
               setRadioSubState(n1, "TX_TX_TO_RX", n1.sTurnaroundTimeUs)
          [] sub = "TX_TX_TO_RX" ->
               setRadioSubState(n1, "IFS_WAIT", ifsTime - n1.sTurnaroundTimeUs)
          [] sub = "TX_TX_TO_AIFS" ->
               setRadioSubState(n1, "TX_AIFS_WAIT", OT_RADIO_MAX_ACK_WAIT_US)
          [] sub = "TX_AIFS_WAIT" ->
               [signalRadioTxDone(setRadioSubState(n1, "READY", UNDEFINED_TIME_US),
                                  FALSE, "NO_ACK")
                EXCEPT !.sTxWait = FALSE]
          [] sub = "TX_ACK_RX_ONGOING" ->
               signalRadioTxDone(setRadioSubState(n1, "IFS_WAIT", ifsTime),
                                 FALSE, "NO_ACK")
          [] sub = "IFS_WAIT" ->
               [setRadioSubState(n1, "READY", UNDEFINED_TIME_US)
                EXCEPT !.sTxWait = FALSE]
          [] sub = "RX_FRAME_ONGOING" ->
               setRadioSubState(n1, "IFS_WAIT", n1.sTurnaroundTimeUs)
          [] sub = "RX_AIFS_WAIT" ->
               LET n2 == radioPrepareAck(n1)
                   n3 == radioTransmit(n2, "ack", n2.sAckFrame, d)
               IN  setRadioSubState(n3, "RX_ACK_TX_ONGOING",
                                    n3.sLastTxEventData.mDuration)
          [] sub = "RX_ACK_TX_ONGOING" ->
               applyRadioDelayedSleep(
                   setRadioSubState(n1, "RX_TX_TO_RX", n1.sTurnaroundTimeUs))
          [] sub = "RX_TX_TO_RX" ->
               setRadioSubState(n1, "IFS_WAIT", n1.sTurnaroundTimeUs)
          [] sub = "RX_ENERGY_SCAN" ->
               IF otPlatAlarmMilliGetNow(n1) >= n1.sEnergyScanEndTime
               THEN [setRadioSubState(Upcall(n1, PlainUpcall("EnergyScanDone")),
                                      "READY", UNDEFINED_TIME_US)
                     EXCEPT !.sEnergyScanning = FALSE]
               ELSE n1
          [] sub \in {"CW_BACKOFF", "AWAIT_CCA"} ->
               setRadioSubState(n1, "READY", 0)
          [] OTHER -> n1

\* rnd holds the draws of otRandomNonCryptoGetUint32InRange
platformRadioInterfererProcess(n, rnd, d) ==
    IF n.sTxInterfererLevel = 0
    THEN n
    ELSE IF otPlatTimeGet(n) < n.sNextRadioEventTime
    THEN n
    ELSE
    LET sub == n.sSubState
    IN  CASE sub = "STARTUP" ->
               setRadioSubState(n, "READY", 1)
          [] sub = "READY" ->
               LET n1 == [n EXCEPT !.sOngoingOperationChannel = n.sCurrentChannel,
                                   !.sTxWait = FALSE]
               IN  IF n1.sLastTxEventData.mError = "CHANNEL_ACCESS_FAILURE"
                   THEN setRadioSubState(n1, "CW_BACKOFF",
                                         rnd.backoffSlots * OT_RADIO_WIFI_SLOT_TIME_US)
                   ELSE setRadioSubState(n1, "AWAIT_CCA",
                                         IF n1.sTxInterfererLevel < 100
                                         THEN rnd.txDelay ELSE 1)
          [] sub \in {"CW_BACKOFF", "AWAIT_CCA"} ->
               startCcaForTransmission(
                   setRadioSubState(n, "TX_CCA",
                                    OT_RADIO_WIFI_CCA_TIME_US + FAILSAFE_TIME_US))
          [] sub = "TX_CCA_TO_TX" ->
               LET n1 == radioTransmitInterference(n, rnd.txDuration, d)
               IN  setRadioSubState(n1, "TX_FRAME_ONGOING",
                                    n1.sLastTxEventData.mDuration + FAILSAFE_TIME_US)
          [] OTHER ->
               setRadioSubState(n, "READY", 1)

(***************************************************************************)
(* event-sim.c / platform-rfsim.c: sleep event and event dispatch.         *)
(***************************************************************************)
otSimSendSleepEvent(n) ==
    otSimSendEvent(n, OutEvent("ALARM_FIRED", platformAlarmGetNext(n), "sleep", "NONE"))

\* a faulty variant: a failed assertion does not end the process
otPlatAssertFailReturns(n) == n

\* misc.c: OT_ASSERT has failed; the process ends in the step that runs this
otPlatAssertFail(n) == [n EXCEPT !.assertFailed = TRUE]

\* IP6_FROM_HOST and UDP_FROM_HOST are handed to the host bridge in a build
\* with border routing and dropped otherwise
platformReceiveEvent(n, event) ==
    IF event.mDataLength > OT_EVENT_DATA_MAX_SIZE
    THEN otPlatAssertFail(n)
    ELSE
    LET n1 == platformAlarmAdvanceNow([n EXCEPT !.gLastMsgId = event.mMsgId],
                                      event.delay)
    IN  IF event.mDataLength < EventDataSize(event.type)
        THEN otPlatAssertFail(n1)
        ELSE
        CASE event.type = "ALARM_FIRED" -> n1
          [] event.type = "UART_WRITE" -> Upcall(n1, PlainUpcall("UartReceived"))
          [] event.type = "RADIO_COMM_START" -> platformRadioRxStart(n1, event)
          [] event.type = "RADIO_RX_DONE" -> platformRadioRxDone(n1, event.frame, event)
          [] event.type = "RADIO_TX_DONE" -> platformRadioTxDone(n1, event)
          [] event.type = "RADIO_CHAN_SAMPLE" -> platformRadioCcaDone(n1, event)
          [] event.type = "RFSIM_PARAM_GET" -> platformRadioRfSimParamGet(n1, event)
          [] event.type = "RFSIM_PARAM_SET" ->
               platformRadioReportStateToSimulator(
                   platformRadioRfSimParamSet(n1, event), TRUE)
          [] event.type \in {"IP6_FROM_HOST", "UDP_FROM_HOST"} ->
               Upcall(n1, PlainUpcall("FromHostToNode"))
          [] OTHER -> otPlatAssertFail(n1)

(***************************************************************************)
(* Inputs: what the simulator sends and what the stack asks for.           *)
(***************************************************************************)
Channels == {11, 12}

\* a short frame that asks for an ACK, a long frame that does not
AckReqTxFrame == Frame(11, 10, FALSE, TRUE, FALSE, 7)
NoAckTxFrame == Frame(11, 20, FALSE, FALSE, FALSE, 7)

UnicastAckReqFrame == Frame(0, 10, FALSE, TRUE, TRUE, 7)   \* to me, ACK requested
OtherNodeFrame == Frame(0, 10, FALSE, TRUE, FALSE, 7)      \* for another node
AckFrame7 == Frame(0, 5, TRUE, FALSE, TRUE, 7)             \* ACK, sequence 7
AckFrame8 == Frame(0, 5, TRUE, FALSE, TRUE, 8)             \* ACK, sequence 8

CcaPowers == {-90, RFSIM_CCA_ED_THRESHOLD_DEFAULT_DBM, OT_RADIO_RSSI_INVALID}

\* time to the deadline of the sub-state, when there is one ahead
ToDeadline(n) ==
    IF n.sNextRadioEventTime > n.sNow THEN {n.sNextRadioEventTime - n.sNow} ELSE {}

\* delays the simulator stamps on a radio event: it is delivered at the
\* instant the node went to sleep, or at the sub-state deadline
RadioDelays(n) == {0} \cup ToDeadline(n)

\* a bare wake-up at the sub-state deadline
WakeEvents(n) == {SimEvent("ALARM_FIRED", dl) : dl \in ToDeadline(n)}

\* a bare wake-up one past the maximum ACK wait after the node went to sleep
LateWakeEvents(n) == {SimEvent("ALARM_FIRED", OT_RADIO_MAX_ACK_WAIT_US + 1)}

CommStartEvents(n, chans, errs) ==
    {[SimEvent("RADIO_COMM_START", dl) EXCEPT
          !.mChannel = ch, !.mError = e, !.mDuration = 352, !.mPower = -60]
     : dl \in RadioDelays(n), ch \in chans, e \in errs}

RxDoneEvents(n, frames, errs) ==
    {[SimEvent("RADIO_RX_DONE", dl) EXCEPT !.frame = f, !.mError = e, !.mPower = -60]
     : dl \in RadioDelays(n), f \in frames, e \in errs}

TxDoneEvents(n, errs) ==
    {[SimEvent("RADIO_TX_DONE", dl) EXCEPT !.mError = e]
     : dl \in RadioDelays(n), e \in errs}

ChanSampleEvents(n, chans) ==
    {[SimEvent("RADIO_CHAN_SAMPLE", dl) EXCEPT !.mChannel = ch, !.mPower = pw]
     : dl \in RadioDelays(n), ch \in chans, pw \in CcaPowers}

ParamSetEvents(param, values) ==
    {[SimEvent("RFSIM_PARAM_SET", 0) EXCEPT !.mParam = param, !.mValue = v]
     : v \in values}

\* draws of the random generator used by the interferer
InterfererDraws ==
    [backoffSlots : {0, OT_RADIO_WIFI_CWMIN_SLOTS - 1},
     txDelay : {1},
     txDuration : {OT_RADIO_WIFI_MAX_TXTIME_US \div 6}]

NoTxAccepted == [sub |-> "-", now |-> -1]

(***************************************************************************)
(* Initial state: otSysInit has run (system.c:59-106).                     *)
(***************************************************************************)
Init ==
    /\ sNow = 0 /\ sClockDriftPpm = 0 /\ sDriftPicoSec = 0
    /\ sIsMsRunning = FALSE /\ sMsAlarm = 0
    /\ sIsUsRunning = FALSE /\ sUsAlarm = 0
    /\ sState = "DISABLED" /\ sSubState = "STARTUP"
    /\ sNextRadioEventTime = RFSIM_STARTUP_TIME_US
    /\ sTurnaroundTimeUs = RFSIM_TURNAROUND_TIME_US
    /\ sTxWait = FALSE /\ sDelaySleep = FALSE /\ sPromiscuous = FALSE
    /\ sTxInterfererLevel = 0
    /\ sCurrentChannel = kMinChannel /\ sOngoingOperationChannel = kMinChannel
    /\ sCcaEdThresh = RFSIM_CCA_ED_THRESHOLD_DEFAULT_DBM
    /\ sLastTxEventData = NoTxEventData
    /\ sTransmitFrame = NoFrame /\ sReceiveFrame = NoFrame /\ sAckFrame = NoFrame
    /\ sLastReported = [state |-> "INVALID", channel |-> 0,
                        subState |-> "INVALID", eventTime |-> 0,
                        rxSensitivity |-> OT_RADIO_RSSI_INVALID]
    /\ sTxPower = RFSIM_TX_POWER_DEFAULT_DBM
    /\ sRxSensitivity = RFSIM_RX_SENSITIVITY_DEFAULT_DBM
    /\ sEnergyScanning = FALSE /\ sEnergyScanEndTime = 0
    /\ sCslAccuracy = RFSIM_CSL_ACCURACY_DEFAULT_PPM
    /\ sCslUncertainty = RFSIM_CSL_UNCERTAINTY_DEFAULT_10US
    /\ sCslPeriod = 0 /\ sCslSampleTime = 0
    /\ sChannelMaxTransmitPower = [ch \in kMinChannel..kMaxChannel |-> OT_RADIO_POWER_INVALID]
    /\ reportedTxPower = OT_RADIO_RSSI_INVALID
    /\ gLastMsgId = 0
    /\ pc = "top"
    /\ sent = <<OutEvent("NODE_INFO", 0, "info", "NONE")>>
    /\ upcalls = <<>> /\ ret = "-" /\ lastOp = "otSysInit" /\ lastEv = NoEvent
    /\ inStack = FALSE
    /\ pre = [sub |-> "STARTUP", state |-> "DISABLED", txWait |-> FALSE,
              delaySleep |-> FALSE]
    /\ tTxDone = -1 /\ tRxDone = -1 /\ tCommStart = -1
    /\ rxDelivered = FALSE
    /\ tIfsEnd = -1
    /\ tMsArmed = [at |-> 0, dt |-> 0] /\ tUsArmed = [at |-> 0, dt |-> 0]
    /\ txAccepted = NoTxAccepted
    /\ nEvents = 0
    /\ tAdvanced = 0
    /\ exitStatus = "running"
    /\ nFrameSent = 0

(***************************************************************************)
(* system.c: the driver loop, one action per call made by                  *)
(* otSysProcessDrivers, taken in program order.                            *)
(***************************************************************************)
LoopStepCounting(n, nextPc, op, ev, k) ==
    /\ exitStatus = "running"
    /\ exitStatus' \in IF n.assertFailed THEN {"exit(1)", "abort"} ELSE {"running"}
    /\ Store(n)
    /\ pc' = nextPc
    /\ lastOp' = op
    /\ lastEv' = ev
    /\ ret' = "-"
    /\ inStack' = (n.upcalls # <<>>)
    /\ txAccepted' = IF op = "RadioProcess" THEN NoTxAccepted ELSE txAccepted
    /\ nEvents' = nEvents + k
    /\ tAdvanced' = tAdvanced + (IF op = "ReceiveEvent" THEN ev.delay ELSE 0)
    /\ UNCHANGED <<tMsArmed, tUsArmed>>
    /\ nFrameSent' =
          IF \E i \in 1..Len(n.upcalls) : n.upcalls[i].name = "TxDone"
          THEN 0
          ELSE IF /\ nFrameSent < 2
                  /\ \E i \in 1..Len(n.sent) : /\ n.sent[i].type = "RADIO_COMM_START"
                                               /\ n.sent[i].kind = "frame"
          THEN nFrameSent + 1
          ELSE nFrameSent

LoopStep(n, nextPc, op, ev) == LoopStepCounting(n, nextPc, op, ev, 0)

\* a sleep decision that does not look at the alarms
SleepConditionIgnoresAlarm(n, tp) ==
    /\ ~tp
    /\ (~platformRadioIsTransmitPending(n) \/ platformRadioIsBusy(n))

\* the sleep decision; tp is otTaskletsArePending()
SleepCondition(n, tp) ==
    /\ ~tp
    /\ platformAlarmGetNext(n) > 0
    /\ (~platformRadioIsTransmitPending(n) \/ platformRadioIsBusy(n))

\* the input of the sleep decision: what otTaskletsArePending() answers
TaskletsInput(tp) == [NoEvent EXCEPT !.type = IF tp THEN "TaskletsPending" ELSE "-"]

otSysProcessDrivers ==
    /\ pc = "top"
    /\ \E tp \in BOOLEAN :
         IF SleepCondition(Cur, tp)
         THEN LoopStep(otSimSendSleepEvent(platformRadioReportStateToSimulator(Cur, FALSE)),
                       "select", "Sleep", TaskletsInput(tp))
         ELSE LoopStep(Cur, "alarm", "NoSleep", TaskletsInput(tp))

\* the instants the timing properties measure from
ObserveEvent(n, event) ==
    [n EXCEPT !.tTxDone = IF event.type = "RADIO_TX_DONE" /\ sSubState = "TX_FRAME_ONGOING"
                          THEN n.sNow ELSE @,
              !.tRxDone = IF /\ event.type = "RADIO_RX_DONE"
                             /\ sSubState = "RX_FRAME_ONGOING"
                             /\ n.sSubState = "RX_AIFS_WAIT"
                          THEN n.sNow ELSE @,
              !.tIfsEnd = IF /\ event.type = "RADIO_TX_DONE"
                             /\ sSubState = "TX_FRAME_ONGOING"
                             /\ n.sSubState = "TX_TX_TO_RX"
                          THEN n.sNow + IfsTime(n) ELSE @,
              !.rxDelivered = IF /\ event.type = "RADIO_RX_DONE"
                                 /\ sSubState = "RX_FRAME_ONGOING"
                                 /\ n.sSubState = "RX_AIFS_WAIT"
                              THEN \E i \in 1..Len(n.upcalls) :
                                       /\ n.upcalls[i].name = "ReceiveDone"
                                       /\ n.upcalls[i].error = "NONE"
                              ELSE @]

\* select() returns with one event of the set and platformReceiveEvent runs
ReceiveEventFrom(events, maxNow) ==
    /\ pc = "select"
    /\ \E event \in events :
         /\ sNow + event.delay <= maxNow
         /\ LoopStep(ObserveEvent(platformReceiveEvent(Cur, event), event),
                     "alarm", "ReceiveEvent", event)

AlarmProcess ==
    /\ pc = "alarm"
    /\ LoopStep(platformAlarmProcess(Cur), "radio", "AlarmProcess", NoEvent)

RadioProcess ==
    /\ pc = "radio"
    /\ \E d \in IndeterminateDelays :
         LoopStep(platformRadioProcess(Cur, d), "intf", "RadioProcess", NoEvent)

InterfererProcess ==
    /\ pc = "intf"
    /\ \E rnd \in InterfererDraws, d \in IndeterminateDelays :
         LoopStep(platformRadioInterfererProcess(Cur, rnd, d), "top",
                  "InterfererProcess", NoEvent)

(***************************************************************************)
(* The stack calls the platform API while it has control.                  *)
(***************************************************************************)
StackHasControl == pc = "top" \/ inStack

ApiCall(n, r, op, ev) ==
    /\ StackHasControl
    /\ exitStatus = "running"
    /\ Store(n)
    /\ ret' = r
    /\ lastOp' = op
    /\ lastEv' = ev
    /\ txAccepted' = IF op = "otPlatRadioTransmit" /\ r = "NONE" /\ sSubState \in RxSubStates
                      THEN [sub |-> sSubState, now |-> sNow]
                      ELSE txAccepted
    /\ nFrameSent' = IF op = "otPlatRadioTransmit" /\ r = "NONE" THEN 0 ELSE nFrameSent
    /\ tMsArmed' = IF op = "otPlatAlarmMilliStartAt"
                   THEN [at |-> sNow \div US_PER_MS, dt |-> ev.mValue] ELSE tMsArmed
    /\ tUsArmed' = IF op = "otPlatAlarmMicroStartAt"
                   THEN [at |-> sNow, dt |-> ev.mValue] ELSE tUsArmed
    /\ UNCHANGED <<pc, inStack, nEvents, tAdvanced, exitStatus>>

RadioEnable ==
    ApiCall(otPlatRadioEnable(Cur), "NONE", "otPlatRadioEnable", NoEvent)

RadioDisable ==
    ApiCall(otPlatRadioDisable(Cur), otPlatRadioDisableError(Cur),
            "otPlatRadioDisable", NoEvent)

RadioSleep ==
    ApiCall(otPlatRadioSleep(Cur), otPlatRadioSleepError(Cur),
            "otPlatRadioSleep", NoEvent)

RadioEnergyScan ==
    \E ch \in {kMinChannel} :
        ApiCall(otPlatRadioEnergyScan(Cur, ch, 1), otPlatRadioEnergyScanError(Cur),
                "otPlatRadioEnergyScan", [NoEvent EXCEPT !.mChannel = ch])

RadioReceiveOn(chans) ==
    \E ch \in chans :
        ApiCall(otPlatRadioReceive(Cur, ch), otPlatRadioReceiveError(Cur),
                "otPlatRadioReceive", [NoEvent EXCEPT !.mChannel = ch])

RadioTransmitOf(frames) ==
    \E f \in frames :
        ApiCall(otPlatRadioTransmit(Cur, f), otPlatRadioTransmitError(Cur),
                "otPlatRadioTransmit", [NoEvent EXCEPT !.frame = f])

RadioSetTransmitPower ==
    \E pw \in {RFSIM_TX_POWER_DEFAULT_DBM, 10} :
        ApiCall(otPlatRadioSetTransmitPower(Cur, pw), "NONE",
                "otPlatRadioSetTransmitPower", [NoEvent EXCEPT !.mPower = pw])

RadioSetChannelMaxTransmitPower ==
    \E ch \in {kMinChannel - 1, kMinChannel, kMaxChannel, kMaxChannel + 1}, pw \in {10} :
        ApiCall(otPlatRadioSetChannelMaxTransmitPower(Cur, ch, pw),
                otPlatRadioSetChannelMaxTransmitPowerError(ch),
                "otPlatRadioSetChannelMaxTransmitPower",
                [NoEvent EXCEPT !.mChannel = ch, !.mPower = pw])

RadioSetPromiscuous ==
    \E b \in BOOLEAN :
        ApiCall(otPlatRadioSetPromiscuous(Cur, b), "-", "otPlatRadioSetPromiscuous",
                NoEvent)

otPlatAlarmMicroStartAt(n, aT0, aDt) ==
    [n EXCEPT !.sUsAlarm = Uint32Add(aT0, aDt), !.sIsUsRunning = TRUE]

otPlatAlarmMicroStop(n) == [n EXCEPT !.sIsUsRunning = FALSE]

otPlatAlarmMilliStartAt(n, aT0, aDt) ==
    [n EXCEPT !.sMsAlarm = Uint32Add(aT0, aDt), !.sIsMsRunning = TRUE]

otPlatAlarmMilliStop(n) == [n EXCEPT !.sIsMsRunning = FALSE]

\* the stack starts a timer from the current time: at once, or one
\* millisecond (200 microseconds) ahead
AlarmMilliStartAt ==
    \E dt \in {0, 1} :
        ApiCall(otPlatAlarmMilliStartAt(Cur, otPlatAlarmMilliGetNow(Cur), dt), "-",
                "otPlatAlarmMilliStartAt", [NoEvent EXCEPT !.mValue = dt])

AlarmMicroStartAt ==
    \E dt \in {0, 200} :
        ApiCall(otPlatAlarmMicroStartAt(Cur, otPlatAlarmMicroGetNow(Cur), dt), "-",
                "otPlatAlarmMicroStartAt", [NoEvent EXCEPT !.mValue = dt])

AlarmMilliStop ==
    ApiCall(otPlatAlarmMilliStop(Cur), "-", "otPlatAlarmMilliStop", NoEvent)

AlarmMicroStop ==
    ApiCall(otPlatAlarmMicroStop(Cur), "-", "otPlatAlarmMicroStop", NoEvent)

(***************************************************************************)
(* The transmit and receive sequences of one node on one channel: the      *)
(* stack enables the radio, listens and hands over a frame that asks for   *)
(* an ACK; the simulator answers the CCA, ends the transmission, starts    *)
(* and ends receptions.                                                    *)
(***************************************************************************)
RadioEvents(n) ==
    WakeEvents(n) \cup LateWakeEvents(n)
    \cup ChanSampleEvents(n, {kMinChannel})
    \cup TxDoneEvents(n, {"NONE", "ABORT"})
    \cup CommStartEvents(n, {kMinChannel}, {"NONE"})
    \cup RxDoneEvents(n, {UnicastAckReqFrame, AckFrame7, AckFrame8}, {"NONE"})

ReceiveEvent == ReceiveEventFrom(RadioEvents(Cur), MaxNow)

RadioReceive == RadioReceiveOn({kMinChannel})

RadioTransmit == RadioTransmitOf({AckReqTxFrame})

Next ==
    \/ otSysProcessDrivers
    \/ ReceiveEvent
    \/ AlarmProcess
    \/ RadioProcess
    \/ InterfererProcess
    \/ RadioEnable
    \/ RadioReceive
    \/ RadioTransmit

Spec == Init /\ [][Next]_vars

(***************************************************************************)
(* The receive sequence with every kind of frame and the calls that        *)
(* interfere with it: the stack may ask for sleep and switch the           *)
(* promiscuous mode at any time.                                           *)
(***************************************************************************)
RxEvents(n) ==
    WakeEvents(n)
    \cup CommStartEvents(n, Channels, {"NONE", "INTF"})
    \cup RxDoneEvents(n, {UnicastAckReqFrame, OtherNodeFrame, AckFrame7, AckFrame8,
                          \* a frame for this node that asks for no ACK
                          [UnicastAckReqFrame EXCEPT !.ackReq = FALSE]},
                      {"NONE", "FCS"})
    \cup TxDoneEvents(n, {"NONE"})

ReceiveEventRx == ReceiveEventFrom(RxEvents(Cur), MaxNow)

NextRx ==
    \/ otSysProcessDrivers
    \/ ReceiveEventRx
    \/ AlarmProcess
    \/ RadioProcess
    \/ InterfererProcess
    \/ RadioEnable
    \/ RadioReceive
    \/ RadioSleep
    \/ RadioSetPromiscuous

SpecRx == Init /\ [][NextRx]_vars

(***************************************************************************)
(* The virtual clock: the simulator advances it by the delay of each       *)
(* event and sets the drift through the CLOCK_DRIFT parameter.  The radio  *)
(* stays disabled.                                                         *)
(***************************************************************************)
\* delays: none, one microsecond, the time in which 128 ppm of drift add up
\* to just under and just over one microsecond, one second
ClockDelays == {0, 1, 7812, 7813, 1000000}

\* drift values the simulator sends; the last two do not fit in int8_t
ClockDrifts == {-128, -20, 127, 200, 32767}

ClockEvents ==
    {SimEvent("ALARM_FIRED", dl) : dl \in ClockDelays}
    \cup {[SimEvent("RFSIM_PARAM_SET", dl) EXCEPT !.mParam = "CLOCK_DRIFT", !.mValue = v]
          : dl \in {0, 1}, v \in ClockDrifts}

ReceiveEventClock ==
    /\ pc = "select"
    /\ nEvents < MaxClockEvents
    /\ \E ev \in ClockEvents :
         LET event == [ev EXCEPT !.mMsgId = nEvents + 1]
         IN  LoopStepCounting(platformReceiveEvent(Cur, event), "alarm",
                              "ReceiveEvent", event, 1)

NextClock ==
    \/ otSysProcessDrivers
    \/ ReceiveEventClock
    \/ AlarmProcess
    \/ RadioProcess
    \/ InterfererProcess

SpecClock == Init /\ [][NextClock]_vars

(***************************************************************************)
(* The interferer: the simulator switches the TX_INTERFERER level on and   *)
(* off, at once or at the sub-state deadline, while the stack transmits    *)
(* and receives.                                                           *)
(***************************************************************************)
IntfEvents(n) ==
    WakeEvents(n)
    \cup {[e EXCEPT !.delay = dl] : e \in ParamSetEvents("TX_INTERFERER", {0, 50}),
                                   dl \in RadioDelays(n)}
    \cup {e \in ChanSampleEvents(n, {kMinChannel}) : e.mPower # OT_RADIO_RSSI_INVALID}
    \cup TxDoneEvents(n, {"NONE"})
    \cup CommStartEvents(n, {kMinChannel}, {"NONE"})
    \cup RxDoneEvents(n, {UnicastAckReqFrame}, {"NONE"})

ReceiveEventIntf ==
    /\ pc = "select"
    /\ nEvents < MaxIntfEvents
    /\ \E event \in IntfEvents(Cur) :
         LoopStepCounting(ObserveEvent(platformReceiveEvent(Cur, event), event),
                          "alarm", "ReceiveEvent", event, 1)

NextIntf ==
    \/ otSysProcessDrivers
    \/ ReceiveEventIntf
    \/ AlarmProcess
    \/ RadioProcess
    \/ InterfererProcess
    \/ RadioEnable
    \/ RadioReceive
    \/ RadioTransmit

SpecIntf == Init /\ [][NextIntf]_vars

(***************************************************************************)
(* The radio API: the stack makes every call in every state of the radio,  *)
(* the simulator sets the receive sensitivity.                             *)
(***************************************************************************)
ApiEvents(n) ==
    WakeEvents(n)
    \cup ParamSetEvents("RX_SENSITIVITY", {RFSIM_RX_SENSITIVITY_DEFAULT_DBM, -90})
    \cup {e \in ChanSampleEvents(n, {kMinChannel}) : e.mPower = -90}
    \cup TxDoneEvents(n, {"NONE"})

ReceiveEventApi ==
    /\ pc = "select"
    /\ nEvents < MaxApiEvents
    /\ \E event \in ApiEvents(Cur) :
         LoopStepCounting(ObserveEvent(platformReceiveEvent(Cur, event), event),
                          "alarm", "ReceiveEvent", event, 1)

NextApi ==
    \/ otSysProcessDrivers
    \/ ReceiveEventApi
    \/ AlarmProcess
    \/ RadioProcess
    \/ InterfererProcess
    \/ RadioEnable
    \/ RadioDisable
    \/ RadioSleep
    \/ RadioReceiveOn(Channels)
    \/ RadioTransmitOf({NoAckTxFrame})
    \/ RadioSetTransmitPower
    \/ RadioEnergyScan

SpecApi == Init /\ [][NextApi]_vars

(***************************************************************************)
(* The channels: the stack names channels inside and outside the band of   *)
(* kMinChannel..kMaxChannel in the calls that take a channel, and sends a  *)
(* frame on a channel of the band.                                         *)
(***************************************************************************)
NextChannel ==
    \/ otSysProcessDrivers
    \/ ReceiveEventApi
    \/ AlarmProcess
    \/ RadioProcess
    \/ InterfererProcess
    \/ RadioEnable
    \/ RadioReceiveOn({kMinChannel - 1, kMinChannel, kMaxChannel, kMaxChannel + 1})
    \/ RadioSetChannelMaxTransmitPower
    \/ RadioTransmitOf({NoAckTxFrame})

SpecChannel == Init /\ [][NextChannel]_vars

(***************************************************************************)
(* The frame check sequence: the stack sends frames of several lengths and *)
(* contents (among them the octets of "123456789"), the simulator delivers *)
(* 2006 and 2015 frames that ask for an ACK, unsecured and secured in key  *)
(* id mode 1 with several key indices.                                     *)
(***************************************************************************)
NextCrc ==
    LET TxPsdus == {<<0, 0>>, <<255, 1, 0, 0>>,
                    <<49, 50, 51, 52, 53, 54, 55, 56, 57, 0, 0>>}
        TxFrames == {[NoAckTxFrame EXCEPT !.mLength = Len(p), !.mPsdu = p] : p \in TxPsdus}
        RxFrames == {UnicastAckReqFrame}
                    \cup {[UnicastAckReqFrame EXCEPT !.isVersion2015 = TRUE, !.keyId = k,
                                                     !.seq = 200]
                          : k \in {-1, 0, 1, 2}}
        CrcEvents == WakeEvents(Cur)
                     \cup {e \in ChanSampleEvents(Cur, {kMinChannel}) : e.mPower = -90}
                     \cup TxDoneEvents(Cur, {"NONE"})
                     \cup CommStartEvents(Cur, {kMinChannel}, {"NONE"})
                     \cup RxDoneEvents(Cur, RxFrames, {"NONE"})
    IN  \/ otSysProcessDrivers
        \/ ReceiveEventFrom(CrcEvents, MaxNow)
        \/ AlarmProcess
        \/ RadioProcess
        \/ InterfererProcess
        \/ RadioEnable
        \/ RadioReceive
        \/ RadioTransmitOf(TxFrames)

SpecCrc == Init /\ [][NextCrc]_vars

(***************************************************************************)
(* The failsafe deadlines: the simulator answers the CCA request or not    *)
(* and sends nothing else but wake-ups at the deadlines the node reports;  *)
(* TX_DONE and the ACK never come.                                         *)
(***************************************************************************)
NextFailsafe ==
    \/ otSysProcessDrivers
    \/ ReceiveEventFrom(WakeEvents(Cur) \cup ChanSampleEvents(Cur, {kMinChannel}),
                        3 * MaxNow)
    \/ AlarmProcess
    \/ RadioProcess
    \/ InterfererProcess
    \/ RadioEnable
    \/ RadioReceive
    \/ RadioTransmitOf({AckReqTxFrame, NoAckTxFrame})

SpecFailsafe == Init /\ [][NextFailsafe]_vars

(***************************************************************************)
(* The interframe spacing: the stack sends frames of at most and of more   *)
(* than aMaxSifsFrameSize octets, with and without ACK request, one after  *)
(* the other; the simulator ends each transmission with or without error.  *)
(***************************************************************************)
NextIfs ==
    \/ otSysProcessDrivers
    \/ ReceiveEventFrom(WakeEvents(Cur)
                        \cup {e \in ChanSampleEvents(Cur, {kMinChannel}) : e.mPower = -90}
                        \cup TxDoneEvents(Cur, {"NONE", "ABORT"}),
                        2 * MaxNow)
    \/ AlarmProcess
    \/ RadioProcess
    \/ InterfererProcess
    \/ RadioEnable
    \/ RadioReceive
    \/ RadioTransmitOf({NoAckTxFrame, [NoAckTxFrame EXCEPT !.mLength = 10],
                        AckReqTxFrame})

SpecIfs == Init /\ [][NextIfs]_vars

(***************************************************************************)
(* The alarms at the wrap of the 32-bit views.  The node has run, with     *)
(* the radio never enabled and no alarm armed, until WrapLead microseconds *)
(* before the clock reaches 2^32 * US_PER_MS, where the millisecond and    *)
(* the microsecond view both wrap to 0.  The stack arms the alarms from    *)
(* the current time (at once, a little ahead, or INT32_MAX microseconds    *)
(* ahead) and stops them; the simulator wakes the node at the instant the  *)
(* sleep event asked for or 500 microseconds later.                        *)
(***************************************************************************)
InitWrap ==
    /\ sNow = -WrapLead /\ sClockDriftPpm = 0 /\ sDriftPicoSec = 0
    /\ sIsMsRunning = FALSE /\ sMsAlarm = 0
    /\ sIsUsRunning = FALSE /\ sUsAlarm = 0
    /\ sState = "DISABLED" /\ sSubState = "READY"
    /\ sNextRadioEventTime = UNDEFINED_TIME_US
    /\ sTurnaroundTimeUs = RFSIM_TURNAROUND_TIME_US
    /\ sTxWait = FALSE /\ sDelaySleep = FALSE /\ sPromiscuous = FALSE
    /\ sTxInterfererLevel = 0
    /\ sCurrentChannel = kMinChannel /\ sOngoingOperationChannel = kMinChannel
    /\ sCcaEdThresh = RFSIM_CCA_ED_THRESHOLD_DEFAULT_DBM
    /\ sLastTxEventData = NoTxEventData
    /\ sTransmitFrame = NoFrame /\ sReceiveFrame = NoFrame /\ sAckFrame = NoFrame
    /\ sLastReported = [state |-> "DISABLED", channel |-> kMinChannel,
                        subState |-> "READY", eventTime |-> UNDEFINED_TIME_US,
                        rxSensitivity |-> RFSIM_RX_SENSITIVITY_DEFAULT_DBM]
    /\ sTxPower = RFSIM_TX_POWER_DEFAULT_DBM
    /\ sRxSensitivity = RFSIM_RX_SENSITIVITY_DEFAULT_DBM
    /\ sEnergyScanning = FALSE /\ sEnergyScanEndTime = 0
    /\ sCslAccuracy = RFSIM_CSL_ACCURACY_DEFAULT_PPM
    /\ sCslUncertainty = RFSIM_CSL_UNCERTAINTY_DEFAULT_10US
    /\ sCslPeriod = 0 /\ sCslSampleTime = 0
    /\ sChannelMaxTransmitPower = [ch \in kMinChannel..kMaxChannel |-> OT_RADIO_POWER_INVALID]
    /\ reportedTxPower = RFSIM_TX_POWER_DEFAULT_DBM
    /\ gLastMsgId = 0
    /\ pc = "top"
    /\ sent = <<>> /\ upcalls = <<>> /\ ret = "-" /\ lastOp = "InterfererProcess"
    /\ lastEv = NoEvent
    /\ inStack = FALSE
    /\ pre = [sub |-> "READY", state |-> "DISABLED", txWait |-> FALSE,
              delaySleep |-> FALSE]
    /\ tTxDone = -1 /\ tRxDone = -1 /\ tCommStart = -1
    /\ rxDelivered = FALSE
    /\ tIfsEnd = -1
    /\ tMsArmed = [at |-> 0, dt |-> 0] /\ tUsArmed = [at |-> 0, dt |-> 0]
    /\ txAccepted = NoTxAccepted
    /\ nEvents = 0
    /\ tAdvanced = 0
    /\ exitStatus = "running"
    /\ nFrameSent = 0

NextWrap ==
    \/ otSysProcessDrivers
    \/ ReceiveEventFrom({SimEvent("ALARM_FIRED", dl) :
                             dl \in {platformAlarmGetNext(Cur), 500} \cap 1..(2 * WrapLead)},
                        WrapLead)
    \/ AlarmProcess
    \/ RadioProcess
    \/ InterfererProcess
    \/ AlarmMilliStartAt
    \/ AlarmMicroStartAt
    \/ ApiCall(otPlatAlarmMicroStartAt(Cur, otPlatAlarmMicroGetNow(Cur), INT32_MAX), "-",
               "otPlatAlarmMicroStartAt", [NoEvent EXCEPT !.mValue = INT32_MAX])
    \/ AlarmMilliStop
    \/ AlarmMicroStop

SpecWrap == InitWrap /\ [][NextWrap]_vars

(***************************************************************************)
(* The drift: the simulator sets the clock drift with its first event and  *)
(* then lets virtual time pass: under the largest drift in steps of one    *)
(* second, under the other drifts in a few steps of mixed lengths.         *)
(***************************************************************************)
ReceiveEventDrift ==
    /\ pc = "select"
    /\ nEvents <= (IF sClockDriftPpm = 127 THEN MaxDriftAdvances ELSE MaxDriftEvents - 1)
    /\ \E event \in
             IF nEvents = 0
             THEN {[SimEvent("RFSIM_PARAM_SET", 0) EXCEPT
                        !.mParam = "CLOCK_DRIFT", !.mValue = v]
                   : v \in ClockDrifts \cup {0, 100}}
             ELSE IF sClockDriftPpm = 127
             THEN {SimEvent("ALARM_FIRED", PS_PER_US)}
             ELSE {SimEvent("ALARM_FIRED", dl) : dl \in ClockDelays \cup {10 * PS_PER_US}} :
         LoopStepCounting(platformReceiveEvent(Cur, event), "alarm",
                          "ReceiveEvent", event, 1)

NextDrift ==
    \/ otSysProcessDrivers
    \/ ReceiveEventDrift
    \/ AlarmProcess
    \/ RadioProcess
    \/ InterfererProcess

SpecDrift == Init /\ [][NextDrift]_vars

(***************************************************************************)
(* Waking at the announced time under drift: the simulator sets the clock  *)
(* drift, lets 7812 microseconds pass, and from then on wakes the node     *)
(* after exactly the delay to the sub-state deadline; the stack enables    *)
(* and disables the radio, which starts a STARTUP period each time.        *)
(***************************************************************************)
NextWake ==
    \/ otSysProcessDrivers
    \/ ReceiveEventFrom(IF sClockDriftPpm = 0
                        THEN {[SimEvent("RFSIM_PARAM_SET", 0) EXCEPT
                                   !.mParam = "CLOCK_DRIFT", !.mValue = v]
                              : v \in {-128, 127}}
                        ELSE IF sNow = 0
                        THEN {SimEvent("ALARM_FIRED", 7812)}
                        ELSE WakeEvents(Cur),
                        14 * MaxNow)
    \/ AlarmProcess
    \/ RadioProcess
    \/ InterfererProcess
    \/ RadioEnable
    \/ RadioDisable

SpecWake == Init /\ [][NextWake]_vars

(***************************************************************************)
(* Starting the radio: the stack enables and disables the radio, puts it   *)
(* to sleep and into receive mode; the simulator wakes the node at the     *)
(* sub-state deadline or 20 microseconds after it went to sleep, and       *)
(* starts frames on the node's channel at any of these instants.           *)
(***************************************************************************)
NextStartup ==
    \/ otSysProcessDrivers
    \/ ReceiveEventFrom(WakeEvents(Cur) \cup {SimEvent("ALARM_FIRED", 20)}
                            \cup CommStartEvents(Cur, {kMinChannel}, {"NONE"}),
                        MaxNow)
    \/ AlarmProcess
    \/ RadioProcess
    \/ InterfererProcess
    \/ RadioEnable
    \/ RadioDisable
    \/ RadioSleep
    \/ RadioReceiveOn({kMinChannel})

SpecStartup == Init /\ [][NextStartup]_vars

(***************************************************************************)
(* CSL: the stack sets a CSL period of 3 units (480 microseconds) and the  *)
(* sample time, sends a frame with a CSL IE and, once the radio has filled *)
(* the IE, sends the frame in the transmit buffer again with its header    *)
(* marked as updated; the simulator                                        *)
(* delivers a 2015 frame that asks for an ACK, and starts and ends frames  *)
(* at the instant the node went to sleep.                                  *)
(***************************************************************************)
NextCsl ==
    LET CslTxFrame == [NoAckTxFrame EXCEPT !.mLength = 10, !.mPsdu = [i \in 1..10 |-> 0],
                                           !.mCslIe = <<0, 0>>]
        Retransmission == IF sTransmitFrame.mCslIe \notin {<<>>, <<0, 0>>}
                          THEN {[sTransmitFrame EXCEPT !.mIsHeaderUpdated = TRUE]}
                          ELSE {}
        RxFrames == {[UnicastAckReqFrame EXCEPT !.isVersion2015 = TRUE]}
        CslEvents == WakeEvents(Cur)
                     \cup {e \in ChanSampleEvents(Cur, {kMinChannel}) : e.mPower = -90}
                     \cup {e \in TxDoneEvents(Cur, {"NONE"})
                                 \cup CommStartEvents(Cur, {kMinChannel}, {"NONE"})
                                 \cup RxDoneEvents(Cur, RxFrames, {"NONE"})
                           : e.delay = 0}
    IN  \/ otSysProcessDrivers
        \/ ReceiveEventFrom(CslEvents, MaxNow + 100)
        \/ AlarmProcess
        \/ RadioProcess
        \/ InterfererProcess
        \/ RadioEnable
        \/ RadioReceive
        \/ /\ sCslPeriod = 0
           /\ ApiCall(otPlatRadioEnableCsl(Cur, 3), "NONE", "otPlatRadioEnableCsl",
                      [NoEvent EXCEPT !.mValue = 3])
        \/ /\ sCslSampleTime = 0
           /\ ApiCall(otPlatRadioUpdateCslSampleTime(Cur, 100), "-",
                      "otPlatRadioUpdateCslSampleTime", [NoEvent EXCEPT !.mValue = 100])
        \/ RadioTransmitOf({CslTxFrame} \cup Retransmission)

SpecCsl == Init /\ [][NextCsl]_vars

(***************************************************************************)
(* Events out of place: at every instant the node goes to sleep the        *)
(* simulator may send a CCA result or the start of a frame, on the node's  *)
(* channel or on another and with or without the interferer marker, the    *)
(* end of a reception or the end of a transmission, whatever the radio is  *)
(* doing; the stack also puts the radio to sleep and disables it.          *)
(***************************************************************************)
NextUnexpected ==
    LET Events == WakeEvents(Cur)
                  \cup {e \in ChanSampleEvents(Cur, Channels)
                              \cup TxDoneEvents(Cur, {"NONE"})
                              \cup CommStartEvents(Cur, Channels, {"NONE", "INTF"})
                              \cup RxDoneEvents(Cur, {UnicastAckReqFrame}, {"NONE"})
                        : e.delay = 0 /\ e.mPower # OT_RADIO_RSSI_INVALID}
    IN  \/ otSysProcessDrivers
        \/ ReceiveEventFrom(Events, MaxNow)
        \/ AlarmProcess
        \/ RadioProcess
        \/ InterfererProcess
        \/ RadioEnable
        \/ RadioDisable
        \/ RadioSleep
        \/ RadioReceive
        \/ RadioTransmitOf({NoAckTxFrame})

SpecUnexpected == Init /\ [][NextUnexpected]_vars

(***************************************************************************)
(* The dispatcher: the simulator sets and reads the six parameters of the  *)
(* radio model, and a parameter the node does not know (PHY_BITRATE), with *)
(* values at the edges of the 8-bit ranges and beyond them; and it sends   *)
(* events of the types the node handles and of types it does not handle    *)
(* (RADIO_STATE, NODE_INFO), with payloads shorter than, as long as and    *)
(* longer than the structure of the type, up to and beyond the maximum.    *)
(***************************************************************************)
ReceiveEventDispatch ==
    /\ pc = "select"
    /\ nEvents < MaxDispatchEvents
    /\ \E event \in
             {[SimEvent(type, 0) EXCEPT
                   !.mParam = param,
                   !.mValue = IF type = "RFSIM_PARAM_SET" THEN value ELSE 0]
              : type \in {"RFSIM_PARAM_SET", "RFSIM_PARAM_GET"},
                param \in {"RX_SENSITIVITY", "CCA_THRESHOLD", "CSL_ACCURACY",
                           "CSL_UNCERTAINTY", "TX_INTERFERER", "CLOCK_DRIFT",
                           "PHY_BITRATE"},
                value \in {-128, 0, 100, 127, 200, 255}}
             \cup
             {[SimEvent(type, dl) EXCEPT !.mDataLength = len, !.mChannel = kMinChannel]
              : dl \in RadioDelays(Cur),
                type \in {"ALARM_FIRED", "UART_WRITE", "RADIO_COMM_START",
                          "RADIO_RX_DONE", "RADIO_TX_DONE", "RADIO_CHAN_SAMPLE",
                          "RFSIM_PARAM_GET", "IP6_FROM_HOST", "UDP_FROM_HOST",
                          "RADIO_STATE", "NODE_INFO"},
                len \in {0, 4, 5, 10, 11, 35, 36,
                         OT_EVENT_DATA_MAX_SIZE, OT_EVENT_DATA_MAX_SIZE + 1}} :
         LoopStepCounting(platformReceiveEvent(Cur, event), "alarm",
                          "ReceiveEvent", event, 1)

NextDispatch ==
    \/ otSysProcessDrivers
    \/ ReceiveEventDispatch
    \/ AlarmProcess
    \/ RadioProcess
    \/ InterfererProcess
    \/ RadioEnable
    \/ RadioReceive

SpecDispatch == Init /\ [][NextDispatch]_vars

(***************************************************************************)
(* The alarms: the stack arms and stops its millisecond and microsecond    *)
(* timers while the radio transmits a frame; the simulator wakes the node  *)
(* at the instant the sleep event asked for, or at the sub-state deadline. *)
(***************************************************************************)
\* a wake-up after the delay the node asked for in its sleep event or at the
\* sub-state deadline, a clear channel sample, the end of the transmission
AlarmEvents(n) ==
    {SimEvent("ALARM_FIRED", dl) : dl \in {platformAlarmGetNext(n)} \ {INT64_MAX}}
    \cup WakeEvents(n)
    \cup {e \in ChanSampleEvents(n, {kMinChannel}) : e.mPower = -90}
    \cup TxDoneEvents(n, {"NONE"})

ReceiveEventAlarm ==
    /\ pc = "select"
    /\ nEvents < MaxAlarmEvents
    /\ \E ev \in AlarmEvents(Cur) :
         LET event == [ev EXCEPT !.mMsgId = nEvents + 1]
         IN  LoopStepCounting(ObserveEvent(platformReceiveEvent(Cur, event), event),
                              "alarm", "ReceiveEvent", event, 1)

NextAlarm ==
    \/ otSysProcessDrivers
    \/ ReceiveEventAlarm
    \/ AlarmProcess
    \/ RadioProcess
    \/ InterfererProcess
    \/ (~sIsMsRunning /\ AlarmMilliStartAt)
    \/ (~sIsUsRunning /\ AlarmMicroStartAt)
    \/ RadioEnable
    \/ RadioReceive
    \/ RadioTransmitOf({NoAckTxFrame})

SpecAlarm == Init /\ [][NextAlarm]_vars

(***************************************************************************)
(* Properties.                                                             *)
(***************************************************************************)

\* C1: for every sequence of inbound events (any delay >= 0) and any clock
\* drift set through the CLOCK_DRIFT parameter, the virtual clock sNow
\* never decreases from one state to the next.
C1_ClockMonotonic == [][sNow' >= sNow]_vars

\* C1 case: with a drift of -128 ppm the remainder has reached -999936 ps
\* and an event with delay 1 makes the adjustment of -1 us: the clock
\* stands still over that event.
C1_Witness ==
    /\ lastOp = "ReceiveEvent"
    /\ lastEv.type = "ALARM_FIRED" /\ lastEv.delay = 1
    /\ sClockDriftPpm = -128
    /\ sDriftPicoSec = -64
    /\ sNow = 7812

\* the sub-states of a transmission sequence up to the end of the ACK wait
TxSequenceSubStates ==
    {"TX_CCA", "TX_CCA_TO_TX", "TX_FRAME_ONGOING", "TX_TX_TO_AIFS", "TX_AIFS_WAIT",
     "TX_ACK_RX_ONGOING"}

\* C2: while a transmission sequence is active in normal mode (sub-state
\* TX_CCA, TX_CCA_TO_TX, TX_FRAME_ONGOING, TX_TX_TO_AIFS, TX_AIFS_WAIT or
\* TX_ACK_RX_ONGOING), sTxWait is true and otPlatRadioTransmit does not
\* accept a new frame, whatever API calls the stack interleaves.
C2_OneTxOutstanding ==
    (sTxInterfererLevel = 0 /\ sSubState \in TxSequenceSubStates)
        => (sTxWait /\ otPlatRadioTransmitError(Cur) # "NONE")

\* what one step sent to the simulator and called up into the stack
SentTypes == {sent[i].type : i \in 1..Len(sent)}
TxDoneErrors == {upcalls[i].error : i \in {j \in 1..Len(upcalls) : upcalls[j].name = "TxDone"}}

\* the step just taken delivered the CCA result of the pending transmission
CcaResultArrived ==
    /\ lastOp = "ReceiveEvent"
    /\ lastEv.type = "RADIO_CHAN_SAMPLE"
    /\ lastEv.mChannel = sTransmitFrame.mChannel
    /\ pre.sub = "TX_CCA"
    /\ sTxInterfererLevel = 0

\* platformRadioProcess runs in TX_CCA_TO_TX: the frame goes out exactly when
\* the turnaround deadline has been reached
TurnaroundStep ==
    (pc = "radio" /\ pc' = "intf" /\ sSubState = "TX_CCA_TO_TX" /\ sTxInterfererLevel = 0)
        => IF sNow >= sNextRadioEventTime
           THEN sSubState' = "TX_FRAME_ONGOING" /\ "RADIO_COMM_START" \in SentTypes'
           ELSE sSubState' = "TX_CCA_TO_TX" /\ "RADIO_COMM_START" \notin SentTypes'

CcaFailureReported ==
    /\ sSubState = "READY"
    /\ TxDoneErrors = {"CHANNEL_ACCESS_FAILURE"}
    /\ "RADIO_COMM_START" \notin SentTypes

CcaPassed ==
    /\ sSubState = "TX_CCA_TO_TX"
    /\ sNextRadioEventTime = sNow + sTurnaroundTimeUs
    /\ TxDoneErrors = {}
    /\ "RADIO_COMM_START" \notin SentTypes

\* C3 (as the code has it): when the CCA result of the pending transmission
\* arrives in TX_CCA in normal mode, a sampled power below the CCA-ED
\* threshold or equal to OT_RADIO_RSSI_INVALID moves the radio to
\* TX_CCA_TO_TX with the turnaround time as deadline, and platformRadioProcess
\* sends RADIO_COMM_START and enters TX_FRAME_ONGOING exactly when that
\* deadline has been reached; every other power reports tx-done with
\* CHANNEL_ACCESS_FAILURE in the handler itself, sends no RADIO_COMM_START
\* and returns to READY.
C3_CcaDecision ==
    /\ [](CcaResultArrived =>
            IF lastEv.mPower < sCcaEdThresh \/ lastEv.mPower = OT_RADIO_RSSI_INVALID
            THEN CcaPassed
            ELSE CcaFailureReported)
    /\ [][TurnaroundStep]_vars

C3_Witness ==
    /\ CcaResultArrived
    /\ lastEv.mPower = OT_RADIO_RSSI_INVALID
    /\ sCcaEdThresh = RFSIM_CCA_ED_THRESHOLD_DEFAULT_DBM
    /\ CcaPassed

\* C3 (as the spec has it): when the CCA result of the pending transmission
\* arrives in TX_CCA, a sampled power below the CCA-ED threshold lets the
\* radio proceed to TX_CCA_TO_TX and every other sampled power reports
\* tx-done with CHANNEL_ACCESS_FAILURE in the same loop iteration, sends no
\* RADIO_COMM_START and returns to READY.
C3_EveryOtherPowerFails ==
    CcaResultArrived =>
        IF lastEv.mPower < sCcaEdThresh THEN CcaPassed ELSE CcaFailureReported

\* the tx-done reports of one step, each with whether it hands over an ACK frame
TxDoneReports ==
    {[ack |-> upcalls[i].ack, error |-> upcalls[i].error] :
         i \in {j \in 1..Len(upcalls) : upcalls[j].name = "TxDone"}}

\* the step just taken delivered, without error, the end of a frame whose
\* start arrived during TX_AIFS_WAIT and that is the ACK of the transmitted frame
AwaitedAckReceived ==
    /\ lastOp = "ReceiveEvent"
    /\ lastEv.type = "RADIO_RX_DONE"
    /\ lastEv.mError = "NONE"
    /\ pre.sub = "TX_ACK_RX_ONGOING"
    /\ lastEv.frame.isAck
    /\ lastEv.frame.seq = sTransmitFrame.seq

\* C4: for a transmitted frame with ACK requested (the CCA was clear and the
\* simulator's TX_DONE is not the step that reports), tx-done reports NONE
\* together with the ACK frame if and only if the step delivered RX_DONE
\* without error for an ACK with the sequence number of the transmitted frame
\* whose RADIO_COMM_START arrived during TX_AIFS_WAIT; in every other case
\* tx-done reports NO_ACK.
C4_AckOutcome ==
    (/\ sTransmitFrame.ackReq
     /\ sTxInterfererLevel = 0
     /\ lastEv.type # "RADIO_TX_DONE"
     /\ "CHANNEL_ACCESS_FAILURE" \notin TxDoneErrors)
        => \A r \in TxDoneReports :
               IF AwaitedAckReceived
               THEN r.error = "NONE" /\ r.ack
               ELSE r.error = "NO_ACK"

\* C5: if otPlatRadioTransmit is accepted while the sub-state is
\* RX_FRAME_ONGOING, RX_AIFS_WAIT or RX_ACK_TX_ONGOING (normal mode), the
\* next platformRadioProcess step runs with no virtual time elapsed since the
\* call, reports tx-done with CHANNEL_ACCESS_FAILURE and leaves the coarse
\* state RECEIVE, and the sub-state stays in the receive / ACK sequence,
\* whatever transmission preceded the reception.
C5_TxDuringRxFailsAtOnce ==
    [][(/\ pc = "radio" /\ pc' = "intf"
        /\ txAccepted.sub \in RxSubStates
        /\ sTxInterfererLevel = 0)
           => /\ sNow = txAccepted.now
              /\ "CHANNEL_ACCESS_FAILURE" \in TxDoneErrors'
              /\ sState' = "RECEIVE"
              /\ sSubState' \in RxSubStates \cup {"RX_TX_TO_RX", "IFS_WAIT"}]_vars

\* C6: otPlatRadioSleep called in RX_FRAME_ONGOING, RX_AIFS_WAIT or
\* RX_ACK_TX_ONGOING returns BUSY, sets sDelaySleep and leaves the coarse
\* state as it was; with the request still deferred (no other radio API call
\* since), the coarse state becomes SLEEP when the reception ends without an
\* ACK (RX_DONE leading to IFS_WAIT) and when the RADIO_TX_DONE of the
\* transmitted ACK is received.
C6_DeferredSleepApplied ==
    /\ (lastOp = "otPlatRadioSleep" /\ pre.sub \in RxSubStates)
           => (ret = "BUSY" /\ sDelaySleep /\ sState = pre.state)
    /\ (/\ lastOp = "ReceiveEvent" /\ lastEv.type = "RADIO_RX_DONE"
        /\ pre.sub = "RX_FRAME_ONGOING" /\ pre.delaySleep
        /\ sSubState = "IFS_WAIT")
           => sState = "SLEEP"
    /\ (/\ lastOp = "ReceiveEvent" /\ lastEv.type = "RADIO_TX_DONE"
        /\ pre.sub = "RX_ACK_TX_ONGOING" /\ pre.delaySleep)
           => sState = "SLEEP"

\* the RADIO_COMM_START events of one step that carry an ACK
AcksSent == {i \in 1..Len(sent) : sent[i].type = "RADIO_COMM_START" /\ sent[i].kind = "ack"}

\* C7: while sPromiscuous is set the radio never generates an ACK: a handled
\* RADIO_RX_DONE leads to IFS_WAIT (never to RX_AIFS_WAIT or
\* RX_ACK_TX_ONGOING) and no step sends a RADIO_COMM_START carrying an ACK,
\* even for a unicast frame addressed to this node that requests an ACK.
C7_NoAckWhenPromiscuous ==
    sPromiscuous =>
        /\ (/\ lastOp = "ReceiveEvent" /\ lastEv.type = "RADIO_RX_DONE"
            /\ pre.sub \in {"RX_FRAME_ONGOING", "TX_ACK_RX_ONGOING"})
               => sSubState = "IFS_WAIT"
        /\ lastOp \in {"ReceiveEvent", "AlarmProcess", "RadioProcess", "InterfererProcess"}
               => AcksSent = {}

\* platformRadioProcess runs while the radio waits for the ACK: NO_ACK is
\* reported exactly by the step that finds the TX_AIFS_WAIT deadline reached
AckWaitStep ==
    (/\ pc = "radio" /\ pc' = "intf"
     /\ sSubState \in {"TX_TX_TO_AIFS", "TX_AIFS_WAIT"}
     /\ sTxInterfererLevel = 0)
        => IF sSubState = "TX_AIFS_WAIT" /\ sNow >= sNextRadioEventTime
           THEN TxDoneReports' = {[ack |-> FALSE, error |-> "NO_ACK"]} /\ sSubState' = "READY"
           ELSE TxDoneReports' = {}

\* C8 (as the code has it): after TX_DONE{NONE} of an ACK-requested frame
\* the radio first waits the turnaround time in TX_TX_TO_AIFS and then
\* OT_RADIO_MAX_ACK_WAIT_US (AIFS + 160 us) in TX_AIFS_WAIT; with no frame
\* start arriving, tx_done(F, NULL, NO_ACK) is reported by the
\* platformRadioProcess step that finds the TX_AIFS_WAIT deadline reached,
\* which is never earlier than turnaround + AIFS + 160 us (392 us) after the
\* TX_DONE.
C8_NoAckAfterTurnaroundAndAckWait ==
    /\ [](/\ sSubState = "TX_TX_TO_AIFS"
               => (tTxDone # -1 /\ sNextRadioEventTime = tTxDone + sTurnaroundTimeUs)
          /\ sSubState = "TX_AIFS_WAIT"
               => (/\ tTxDone # -1
                   /\ sNextRadioEventTime >=
                          tTxDone + sTurnaroundTimeUs + OT_RADIO_MAX_ACK_WAIT_US)
          /\ (pre.sub = "TX_AIFS_WAIT" /\ "NO_ACK" \in TxDoneErrors)
               => (/\ lastOp = "RadioProcess"
                   /\ sNow >= tTxDone + sTurnaroundTimeUs + OT_RADIO_MAX_ACK_WAIT_US))
    /\ [][AckWaitStep]_vars

C8_Witness ==
    /\ lastOp = "RadioProcess"
    /\ pre.sub = "TX_AIFS_WAIT"
    /\ TxDoneReports = {[ack |-> FALSE, error |-> "NO_ACK"]}
    /\ sTransmitFrame.ackReq
    /\ tTxDone # -1
    /\ sNow = tTxDone + sTurnaroundTimeUs + OT_RADIO_MAX_ACK_WAIT_US

\* C8 (as the spec has it): after TX_DONE{NONE} of an ACK-requested frame
\* and with no frame start arriving, once platformRadioProcess has run at
\* AIFS + 160 us + 1 (353 us) or more past the TX_DONE, tx_done(F, NULL,
\* NO_ACK) has been reported.
C8_NoAckAfterAckWait ==
    (/\ lastOp = "RadioProcess"
     /\ sTransmitFrame.ackReq
     /\ tTxDone # -1
     /\ sSubState # "TX_ACK_RX_ONGOING"
     /\ sNow >= tTxDone + OT_RADIO_MAX_ACK_WAIT_US + 1)
        => "NO_ACK" \in TxDoneErrors

\* the step just taken delivered RADIO_RX_DONE in normal mode
RxDoneArrived ==
    /\ lastOp = "ReceiveEvent"
    /\ lastEv.type = "RADIO_RX_DONE"
    /\ sTxInterfererLevel = 0

\* the frame of the last event is to be acknowledged
AckIsDue ==
    /\ lastEv.mError = "NONE"
    /\ lastEv.frame.toMe /\ lastEv.frame.ackReq /\ ~lastEv.frame.isAck

\* platformRadioProcess runs in RX_AIFS_WAIT: the ACK goes out, once, exactly
\* when the AIFS deadline has been reached
AifsStep ==
    (pc = "radio" /\ pc' = "intf" /\ sSubState = "RX_AIFS_WAIT" /\ sTxInterfererLevel = 0)
        => IF sNow >= sNextRadioEventTime
           THEN /\ Cardinality(AcksSent') = 1
                /\ sSubState' = "RX_ACK_TX_ONGOING"
                /\ sNow >= tRxDone + OT_RADIO_AIFS_TIME_US
           ELSE AcksSent' = {} /\ sSubState' = "RX_AIFS_WAIT"

\* the way back to READY: TX_DONE of the ACK, then the two turnaround timers
AckDoneSteps ==
    /\ (/\ pc = "select" /\ pc' = "alarm" /\ lastEv'.type = "RADIO_TX_DONE"
        /\ sSubState = "RX_ACK_TX_ONGOING")
           => (/\ sSubState' = "RX_TX_TO_RX"
               /\ sNextRadioEventTime' = sNow' + sTurnaroundTimeUs)
    /\ (/\ pc = "radio" /\ pc' = "intf" /\ sTxInterfererLevel = 0
        /\ sNow >= sNextRadioEventTime)
           => (/\ sSubState = "RX_TX_TO_RX"
                    => (/\ sSubState' = "IFS_WAIT"
                        /\ sNextRadioEventTime' = sNow + sTurnaroundTimeUs)
               /\ sSubState = "IFS_WAIT" => sSubState' = "READY")

\* C9 (as the code has it): RADIO_RX_DONE without error in RX_FRAME_ONGOING
\* for a frame addressed to this node that requests an ACK and is not an ACK
\* enters RX_AIFS_WAIT with deadline AIFS = 192 us; the platformRadioProcess
\* step that finds the deadline reached sends exactly one RADIO_COMM_START
\* carrying the ACK, never earlier than 192 us after the RX_DONE, and enters
\* RX_ACK_TX_ONGOING; no other step sends an ACK; TX_DONE then leads to
\* RX_TX_TO_RX and the timers lead on to IFS_WAIT and READY.  Every other
\* RX_DONE received in RX_FRAME_ONGOING sends no ACK and leads to IFS_WAIT;
\* an RX_DONE received in a sub-state other than RX_FRAME_ONGOING and
\* TX_ACK_RX_ONGOING is ignored: the sub-state stays, nothing is sent or
\* reported.
C9_AckAfterAifs ==
    /\ [](/\ (RxDoneArrived /\ pre.sub = "RX_FRAME_ONGOING")
               => IF AckIsDue
                  THEN /\ sSubState = "RX_AIFS_WAIT"
                       /\ sNextRadioEventTime = sNow + OT_RADIO_AIFS_TIME_US
                       /\ tRxDone = sNow
                       /\ AcksSent = {}
                  ELSE sSubState = "IFS_WAIT" /\ AcksSent = {}
          /\ (RxDoneArrived /\ pre.sub \notin {"RX_FRAME_ONGOING", "TX_ACK_RX_ONGOING"})
               => (sSubState = pre.sub /\ sent = <<>> /\ upcalls = <<>>)
          /\ AcksSent # {} => (lastOp = "RadioProcess" /\ pre.sub = "RX_AIFS_WAIT"))
    /\ [][AifsStep /\ AckDoneSteps]_vars

C9_Witness ==
    /\ lastOp = "RadioProcess"
    /\ pre.sub = "RX_AIFS_WAIT"
    /\ Cardinality(AcksSent) = 1
    /\ sSubState = "RX_ACK_TX_ONGOING"
    /\ sNow = tRxDone + OT_RADIO_AIFS_TIME_US
    /\ sAckFrame.isAck /\ sAckFrame.seq = sReceiveFrame.seq

\* C9 (as the spec has it): RADIO_RX_DONE without error in RX_FRAME_ONGOING
\* for a frame addressed to this node that requests an ACK and is not an ACK
\* enters RX_AIFS_WAIT with deadline AIFS = 192 us; for every other RX_DONE
\* no ACK is emitted and the sub-state becomes IFS_WAIT.
C9_EveryOtherRxDoneToIfsWait ==
    RxDoneArrived
        => IF pre.sub = "RX_FRAME_ONGOING" /\ AckIsDue
           THEN /\ sSubState = "RX_AIFS_WAIT"
                /\ sNextRadioEventTime = sNow + OT_RADIO_AIFS_TIME_US
           ELSE sSubState = "IFS_WAIT" /\ AcksSent = {}

\* C10: every outbound event other than the sleep event (RADIO_COMM_START,
\* RADIO_CHAN_SAMPLE, RADIO_STATE, NODE_INFO, RFSIM_PARAM_RSP, ...) carries
\* delay = 0, so the delays of the outbound events of a TX sequence sum to 0.
C10_OutboundDelayZero ==
    \A i \in 1..Len(sent) : sent[i].kind # "sleep" => sent[i].delay = 0

(***************************************************************************)
(* C11: the sleep decision of the driver loop.                             *)
(***************************************************************************)
\* C11: a pass through the driver loop sends a sleep event and blocks on the
\* socket exactly when no tasklets are pending, the next alarm deadline is
\* ahead and no transmission is pending unless the radio is busy; the delay of
\* the sleep event is positive and is the time to the next alarm deadline; a
\* pass that does not sleep sends no sleep event and reads no inbound event,
\* and every inbound event is read right after a sleep event was sent.
C11_SleepExactlyWhenIdle ==
    /\ [][LET SleepEvents(evs) == {i \in 1..Len(evs) : evs[i].kind = "sleep"}
              SleepIsDue ==
                  /\ lastEv'.type # "TaskletsPending"
                  /\ platformAlarmGetNext(Cur) > 0
                  /\ (~(sState = "TRANSMIT" /\ ~sTxWait)
                      \/ (sState \in {"TRANSMIT", "RECEIVE"} /\ sSubState # "READY"))
          IN  /\ (pc = "top" /\ pc' # "top")
                 => /\ (SleepIsDue <=> pc' = "select")
                    /\ (SleepIsDue <=> SleepEvents(sent') # {})
                    /\ SleepIsDue =>
                         /\ Cardinality(SleepEvents(sent')) = 1
                         /\ sent'[Len(sent')].kind = "sleep"
                         /\ sent'[Len(sent')].delay > 0
                         /\ sent'[Len(sent')].delay = platformAlarmGetNext(Cur)
              /\ (lastOp' = "ReceiveEvent" /\ pc' = "alarm")
                 => /\ pc = "select" /\ lastOp = "Sleep"
                    /\ sent # <<>>
                    /\ sent[Len(sent)].kind = "sleep"]_vars
    /\ [](pc = "select" => lastOp = "Sleep")

\* the node sleeps during a transmission with an armed alarm ahead
C11_Witness ==
    /\ pc = "select"
    /\ lastOp = "Sleep"
    /\ sState = "TRANSMIT"
    /\ sIsUsRunning
    /\ sent[Len(sent)].delay = 200

C13_OutboundTaggedWithLastMsgId ==
    /\ [](\A i \in 1..Len(sent) : sent[i].mMsgId = gLastMsgId)
    /\ [](gLastMsgId = nEvents)
    /\ [][IF lastOp' = "ReceiveEvent" /\ pc = "select"
          THEN gLastMsgId' = lastEv'.mMsgId /\ gLastMsgId' > gLastMsgId
          ELSE gLastMsgId' = gLastMsgId]_vars

\* the frame goes out after the third inbound event and carries its number
C13_Witness ==
    /\ gLastMsgId = 3
    /\ \E i \in 1..Len(sent) :
         sent[i].type = "RADIO_COMM_START" /\ sent[i].mMsgId = 3

(***************************************************************************)
(* C14: one RADIO_COMM_START per instant.                                  *)
(***************************************************************************)
\* C14: the node never sends two RADIO_COMM_START events at the same value of
\* the virtual clock, whatever the events, the API calls and the switches
\* between the normal and the interferer mode: a step sends at most one, and
\* none when one was sent earlier at the instant the clock shows after the step.
C14_OneCommStartPerInstant ==
    /\ [](tCommStart \in {-1, sNow})
    /\ [][LET starts == {i \in 1..Len(sent') : sent'[i].type = "RADIO_COMM_START"}
          IN  /\ Cardinality(starts) <= 1
              /\ starts # {} => tCommStart # sNow']_vars

\* the interferer has just sent its frame, after the node, in normal mode,
\* had received a frame
C14_Witness ==
    /\ sTxInterfererLevel > 0
    /\ tCommStart = sNow
    /\ sReceiveFrame = [UnicastAckReqFrame EXCEPT !.mChannel = kMinChannel]
    /\ \E i \in 1..Len(sent) : sent[i].type = "RADIO_COMM_START" /\ sent[i].kind = "intf"

(***************************************************************************)
(* C15: the state report before the sleep event.                           *)
(***************************************************************************)
\* C15 as amended: when the node goes to sleep and the channel of the ongoing
\* operation, the rx_sensitivity, the sub-state, the coarse state (and with
\* them the energy state) or the sub-state deadline differ from what the last
\* RADIO_STATE reported, one RADIO_STATE with the current values, the current
\* tx_power among them, is sent before the sleep event; when none of them
\* differs no RADIO_STATE is sent, also when the tx_power has changed.
C15_StateReportedUnlessOnlyTxPowerChanged ==
    [][(pc = "top" /\ pc' = "select") =>
         LET changed ==
                 \/ sLastReported.state # sState
                 \/ sLastReported.channel # sOngoingOperationChannel
                 \/ sLastReported.subState # sSubState
                 \/ sLastReported.eventTime # sNextRadioEventTime
                 \/ sLastReported.rxSensitivity # sRxSensitivity
             reports == {i \in 1..Len(sent') : sent'[i].type = "RADIO_STATE"}
         IN  /\ changed <=> reports # {}
             /\ Cardinality(reports) <= 1
             /\ \A i \in reports :
                  /\ i < Len(sent') /\ sent'[Len(sent')].kind = "sleep"
                  /\ sent'[i].data.mChannel = sOngoingOperationChannel
                  /\ sent'[i].data.mTxPower = sTxPower
                  /\ sent'[i].data.mRxSensitivity = sRxSensitivity
                  /\ sent'[i].data.mSubState = sSubState
                  /\ sent'[i].data.mState = sState
                  /\ sent'[i].data.mEnergyState \in {sState, "RECEIVE", "TRANSMIT"}]_vars

\* the node went to sleep without a report after the stack had set a tx_power
\* that differs from the reported one
C15_Witness ==
    /\ lastOp = "Sleep"
    /\ sTxPower # reportedTxPower
    /\ reportedTxPower # OT_RADIO_RSSI_INVALID
    /\ \A i \in 1..Len(sent) : sent[i].type # "RADIO_STATE"

\* C15: when the node goes to sleep and the channel, the tx_power, the
\* rx_sensitivity, the sub-state, the coarse state (and with them the energy
\* state) or the sub-state deadline differ from what the last RADIO_STATE
\* reported, a RADIO_STATE with the current values is sent before the sleep
\* event; when none of them differs, no RADIO_STATE is sent.
C15_StateReportedBeforeSleep ==
    [][(pc = "top" /\ pc' = "select") =>
         LET changed ==
                 \/ sLastReported.state # sState
                 \/ sLastReported.channel # sOngoingOperationChannel
                 \/ sLastReported.subState # sSubState
                 \/ sLastReported.eventTime # sNextRadioEventTime
                 \/ sLastReported.rxSensitivity # sRxSensitivity
                 \/ reportedTxPower # sTxPower
             reports == {i \in 1..Len(sent') : sent'[i].type = "RADIO_STATE"}
         IN  /\ changed <=> reports # {}
             /\ \A i \in reports :
                  /\ i < Len(sent') /\ sent'[Len(sent')].kind = "sleep"
                  /\ sent'[i].data.mChannel = sOngoingOperationChannel
                  /\ sent'[i].data.mTxPower = sTxPower
                  /\ sent'[i].data.mRxSensitivity = sRxSensitivity
                  /\ sent'[i].data.mSubState = sSubState
                  /\ sent'[i].data.mState = sState]_vars

(***************************************************************************)
(* C16: the state of the radio when a failed transmission is reported.     *)
(***************************************************************************)
\* C16: whenever tx-done is reported with NO_ACK or CHANNEL_ACCESS_FAILURE,
\* the radio is at that moment in coarse state RECEIVE and sub-state READY.
C16_FailureReportedInReceiveReady ==
    \A i \in 1..Len(upcalls) :
        upcalls[i].name = "TxDone" /\ upcalls[i].error \in {"NO_ACK", "CHANNEL_ACCESS_FAILURE"}
        => upcalls[i].sState = "RECEIVE" /\ upcalls[i].sSubState = "READY"

(***************************************************************************)
(* C17: the clean transmission of a frame that is acknowledged.            *)
(***************************************************************************)
\* C17: a transmission of an ACK-requested frame whose CCA is clear, whose
\* RADIO_TX_DONE carries no error and whose ACK (same sequence number, no
\* error) ends inside the ACK wait reports tx-done exactly once, with the ACK
\* frame and error NONE: no step that keeps the coarse state TRANSMIT reports
\* tx-done, the RADIO_RX_DONE of the ACK reports it once, clears sTxWait,
\* returns to coarse state RECEIVE and starts the inter-frame wait, and the
\* end of that wait reaches sub-state READY in coarse state RECEIVE with
\* sTxWait false and without a further report.
C17_CleanTxAckReportedOnce ==
    [][LET TxDones == {i \in 1..Len(upcalls') : upcalls'[i].name = "TxDone"}
           AwaitedAckArrives ==
               /\ pc = "select" /\ lastOp' = "ReceiveEvent"
               /\ lastEv'.type = "RADIO_RX_DONE" /\ lastEv'.mError = "NONE"
               /\ lastEv'.frame.isAck
               /\ lastEv'.frame.seq = sTransmitFrame.seq
               /\ sSubState = "TX_ACK_RX_ONGOING"
               /\ sState = "TRANSMIT" /\ sTxWait /\ sTransmitFrame.ackReq
           IfsWaitEnds ==
               /\ pc = "radio" /\ sSubState = "IFS_WAIT"
               /\ sState = "RECEIVE" /\ ~sTxWait
               /\ sNow >= sNextRadioEventTime
       IN  /\ (sState = "TRANSMIT" /\ sState' = "TRANSMIT") => TxDones = {}
           /\ AwaitedAckArrives
                 => /\ Cardinality(TxDones) = 1
                    /\ \A i \in TxDones :
                           upcalls'[i].ack /\ upcalls'[i].error = "NONE"
                    /\ sState' = "RECEIVE" /\ ~sTxWait'
                    /\ sSubState' = "IFS_WAIT"
                    /\ sNextRadioEventTime' = sNow' + IfsTime(Cur)
           /\ IfsWaitEnds
                 => /\ TxDones = {}
                    /\ sState' = "RECEIVE" /\ ~sTxWait'
                    /\ sSubState' = "READY"]_vars

\* the ACK of the transmitted frame has just been read inside the ACK wait,
\* after the RADIO_TX_DONE of the frame, and tx-done was reported with it
C17_Witness ==
    /\ lastOp = "ReceiveEvent" /\ lastEv.type = "RADIO_RX_DONE"
    /\ lastEv.frame = AckFrame7 /\ sTransmitFrame = AckReqTxFrame
    /\ pre.sub = "TX_ACK_RX_ONGOING" /\ pre.state = "TRANSMIT" /\ pre.txWait
    /\ sSubState = "IFS_WAIT" /\ sState = "RECEIVE"
    /\ \E i \in 1..Len(upcalls) :
           upcalls[i].name = "TxDone" /\ upcalls[i].ack /\ upcalls[i].error = "NONE"

(***************************************************************************)
(* C18: the energy scan.                                                   *)
(***************************************************************************)
\* C18: otPlatRadioEnergyScan on a radio that is not scanning returns NONE and
\* puts the radio in sub-state RX_ENERGY_SCAN, a call made during a scan
\* returns BUSY, and once the end time of the scan is reached
\* platformRadioProcess makes the energy-scan-done upcall and returns to
\* sub-state READY.
C18_EnergyScanRunsAndEnds ==
    [][/\ (StackHasControl /\ lastOp' = "otPlatRadioEnergyScan"
           /\ <<ret, lastOp, lastEv>>' # <<ret, lastOp, lastEv>>)
              => IF sEnergyScanning
                 THEN ret' = "BUSY"
                 ELSE /\ ret' = "NONE"
                      /\ sSubState' = "RX_ENERGY_SCAN"
                      /\ sEnergyScanning'
       /\ (/\ pc = "radio" /\ sEnergyScanning /\ sTxInterfererLevel = 0
           /\ otPlatAlarmMilliGetNow(Cur) >= sEnergyScanEndTime)
              => /\ \E i \in 1..Len(upcalls') : upcalls'[i].name = "EnergyScanDone"
                 /\ sSubState' = "READY"
                 /\ ~sEnergyScanning']_vars

(***************************************************************************)
(* C19: radio API calls in the wrong coarse state.                         *)
(***************************************************************************)
\* C19: otPlatRadioTransmit unless the coarse state is RECEIVE,
\* otPlatRadioReceive in DISABLED, otPlatRadioDisable in RECEIVE or TRANSMIT
\* and otPlatRadioSleep in DISABLED or TRANSMIT outside the sub-states
\* RX_FRAME_ONGOING, RX_AIFS_WAIT and RX_ACK_TX_ONGOING return INVALID_STATE,
\* and a call that returns INVALID_STATE leaves coarse state, sub-state,
\* sub-state deadline, channel, sTxWait and sDelaySleep as they were.
C19_WrongStateCallChangesNothing ==
    [][LET WrongState ==
               \/ lastOp' = "otPlatRadioTransmit" /\ sState # "RECEIVE"
               \/ lastOp' = "otPlatRadioReceive" /\ sState = "DISABLED"
               \/ lastOp' = "otPlatRadioDisable" /\ sState \in {"RECEIVE", "TRANSMIT"}
               \/ /\ lastOp' = "otPlatRadioSleep"
                  /\ sState \in {"DISABLED", "TRANSMIT"}
                  /\ sSubState \notin RxSubStates
       IN  /\ WrongState => ret' = "INVALID_STATE"
           /\ (/\ ret' = "INVALID_STATE"
               /\ lastOp' \in {"otPlatRadioTransmit", "otPlatRadioReceive",
                               "otPlatRadioDisable", "otPlatRadioSleep"})
                 => /\ WrongState
                    /\ UNCHANGED <<sState, sSubState, sNextRadioEventTime,
                                   sCurrentChannel, sOngoingOperationChannel,
                                   sTxWait, sDelaySleep>>]_vars

\* otPlatRadioSleep was refused while a frame was being transmitted
C19_Witness ==
    /\ lastOp = "otPlatRadioSleep" /\ ret = "INVALID_STATE"
    /\ sState = "TRANSMIT" /\ pre.state = "TRANSMIT"
    /\ sSubState = "TX_FRAME_ONGOING" /\ pre.sub = "TX_FRAME_ONGOING"
    /\ sNextRadioEventTime > sNow

(***************************************************************************)
(* C20: the interferer mode bypasses the 802.15.4 state machine.           *)
(***************************************************************************)
\* C20: in a step taken with the TX_INTERFERER level in 1..100 the node sends
\* no RADIO_COMM_START with error NONE and makes no tx-done upcall; every
\* RADIO_COMM_START of such a step carries the interferer code and is sent by
\* platformRadioInterfererProcess from sub-state TX_CCA_TO_TX; and in either
\* mode TX_CCA_TO_TX is entered only from TX_CCA by a RADIO_CHAN_SAMPLE result
\* that shows a clear channel, and TX_CCA only by a step that sends the
\* RADIO_CHAN_SAMPLE request, so that each such RADIO_COMM_START follows a CCA
\* request whose result was clear.
C20_InterfererBypassesFsm ==
    [][LET CommStarts == {i \in 1..Len(sent') : sent'[i].type = "RADIO_COMM_START"}
           InterfererMode ==
               sTxInterfererLevel \in 1..100 \/ sTxInterfererLevel' \in 1..100
       IN  /\ InterfererMode
                 => /\ \A i \in 1..Len(upcalls') : upcalls'[i].name # "TxDone"
                    /\ \A i \in CommStarts :
                           /\ sent'[i].mError = "INTF" /\ sent'[i].kind = "intf"
                           /\ pc = "intf" /\ sSubState = "TX_CCA_TO_TX"
                           /\ sSubState' = "TX_FRAME_ONGOING"
           /\ (sSubState' = "TX_CCA_TO_TX" /\ sSubState # "TX_CCA_TO_TX")
                 => /\ sSubState = "TX_CCA"
                    /\ lastEv'.type = "RADIO_CHAN_SAMPLE"
                    /\ lastEv'.mPower < sCcaEdThresh
                       \/ lastEv'.mPower = OT_RADIO_RSSI_INVALID
           /\ (sSubState' = "TX_CCA" /\ sSubState # "TX_CCA")
                 => \E i \in 1..Len(sent') : sent'[i].type = "RADIO_CHAN_SAMPLE"]_vars

\* the interferer has just sent its frame after a clear CCA
C20_Witness ==
    /\ sTxInterfererLevel \in 1..100
    /\ lastOp = "InterfererProcess" /\ pre.sub = "TX_CCA_TO_TX"
    /\ sSubState = "TX_FRAME_ONGOING"
    /\ sLastTxEventData.mError = "INTF"
    /\ \E i \in 1..Len(sent) :
           sent[i].type = "RADIO_COMM_START" /\ sent[i].mError = "INTF"

(***************************************************************************)
(* C21: setting and reading the parameters of the radio model.             *)
(***************************************************************************)
\* C21: RFSIM_PARAM_SET and RFSIM_PARAM_GET of one of the six parameters are
\* answered by one RFSIM_PARAM_RSP with that parameter and the value in effect
\* after the event; after a SET that value is the value of the event when it
\* lies in the range of the parameter (signed 8 bits for RX_SENSITIVITY and
\* CCA_THRESHOLD, unsigned 8 bits for the CSL parameters, 0..100 for
\* TX_INTERFERER, signed 16 bits for CLOCK_DRIFT); the interferer level stays
\* in 0..100; an unknown parameter is answered with UNKNOWN and value 0 and
\* changes no parameter.
C21_ParamSetGetRoundTrip ==
    [][LET ev == lastEv'
           Responses == {i \in 1..Len(sent') : sent'[i].type = "RFSIM_PARAM_RSP"}
           InEffect ==
               [RX_SENSITIVITY |-> sRxSensitivity', CCA_THRESHOLD |-> sCcaEdThresh',
                CSL_ACCURACY |-> sCslAccuracy', CSL_UNCERTAINTY |-> sCslUncertainty',
                TX_INTERFERER |-> sTxInterfererLevel', CLOCK_DRIFT |-> sClockDriftPpm']
           Range ==
               [RX_SENSITIVITY |-> -128..127, CCA_THRESHOLD |-> -128..127,
                CSL_ACCURACY |-> 0..255, CSL_UNCERTAINTY |-> 0..255,
                TX_INTERFERER |-> 0..100, CLOCK_DRIFT |-> -32768..32767]
           Parameters == <<sRxSensitivity, sCcaEdThresh, sCslAccuracy, sCslUncertainty,
                           sTxInterfererLevel, sClockDriftPpm>>
       IN  (/\ pc = "select" /\ lastOp' = "ReceiveEvent"
            /\ ev.type \in {"RFSIM_PARAM_SET", "RFSIM_PARAM_GET"}
            /\ ev.mDataLength >= EventDataSize(ev.type)
            /\ ev.mDataLength <= OT_EVENT_DATA_MAX_SIZE)
              => /\ Cardinality(Responses) = 1
                 /\ sTxInterfererLevel' \in 0..100
                 /\ \A i \in Responses :
                        IF ev.mParam \in DOMAIN InEffect
                        THEN /\ sent'[i].mParam = ev.mParam
                             /\ sent'[i].mValue = InEffect[ev.mParam]
                             /\ (ev.type = "RFSIM_PARAM_SET" /\ ev.mValue \in Range[ev.mParam])
                                   => sent'[i].mValue = ev.mValue
                             /\ ev.type = "RFSIM_PARAM_GET" => UNCHANGED Parameters
                        ELSE /\ sent'[i].mParam = "UNKNOWN" /\ sent'[i].mValue = 0
                             /\ UNCHANGED Parameters]_vars

(***************************************************************************)
(* C22: the arithmetic of the clock drift.                                  *)
(***************************************************************************)
\* C22: with the drift d set before any time has passed, after every advance
\* sNow is the sum of the delays plus the whole microseconds (rounded toward
\* zero) of d times that sum in picoseconds, and sDriftPicoSec is the rest,
\* strictly between -10^6 and 10^6; so d = 0 gives the exact sum, d = 100 and
\* one advance of 10 s give 10001000, and d = 127 and 1000 advances of 1 s
\* give 1000127000.
C22_DriftArithmetic ==
    LET d == sClockDriftPpm
        \* d * tAdvanced = whole * 10^6 + rest, computed in 32 bits
        seconds == tAdvanced \div PS_PER_US
        micros == tAdvanced % PS_PER_US
        whole == d * seconds + CDiv(d * micros, PS_PER_US)
        rest == d * micros - CDiv(d * micros, PS_PER_US) * PS_PER_US
    IN  /\ sNow = tAdvanced + whole
        /\ sDriftPicoSec = rest
        /\ sDriftPicoSec > -PS_PER_US /\ sDriftPicoSec < PS_PER_US
        /\ d = 0 => sNow = tAdvanced
        /\ (d = 100 /\ tAdvanced = 10000000) => sNow = 10001000
        /\ (d = 127 /\ tAdvanced = 1000000000) => sNow = 1000127000

\* the thousandth advance of one second under a drift of 127 ppm was read
C22_Witness ==
    /\ sClockDriftPpm = 127
    /\ nEvents = 1001 /\ tAdvanced = 1000000000
    /\ lastOp = "ReceiveEvent" /\ lastEv.delay = PS_PER_US
    /\ sNow = 1000127000

C24_ChannelOutsideBandRejected ==
    [][LET TakesChannel ==
               \/ lastOp' = "otPlatRadioSetChannelMaxTransmitPower"
               \/ lastOp' = "otPlatRadioReceive" /\ sState # "DISABLED"
           InBand == lastEv'.mChannel \in kMinChannel..kMaxChannel
       IN  TakesChannel /\ <<ret, lastOp, lastEv, radioVars>>' # <<ret, lastOp, lastEv, radioVars>>
           => IF InBand
              THEN ret' = "NONE"
              ELSE /\ ret' = "INVALID_ARGS"
                   /\ UNCHANGED <<sCurrentChannel, sChannelMaxTransmitPower, sState>>]_vars

(***************************************************************************)
(* C25: every frame and every ACK the node emits in a RADIO_COMM_START     *)
(* ends with the CRC-16/Kermit of the octets before it (polynomial 0x1021  *)
(* reflected, that is 0x8408 shifting right, initial value 0, no final     *)
(* xor), low octet first.                                                  *)
(***************************************************************************)
C25_EmittedFcsIsKermit ==
    LET RECURSIVE Xor(_, _)
        Xor(a, b) == IF a = 0 THEN b
                     ELSE IF b = 0 THEN a
                     ELSE ((a + b) % 2) + 2 * Xor(a \div 2, b \div 2)
        \* one bit: shift right, and xor with 0x8408 when a one fell out
        Step(c) == IF c % 2 = 1 THEN Xor(c \div 2, 33800) ELSE c \div 2
        RECURSIVE Kermit(_, _)
        Kermit(octets, len) ==
            IF len = 0
            THEN 0
            ELSE LET c0 == Xor(Kermit(octets, len - 1), octets[len])
                 IN  IF c0 \in Nat
                     THEN Step(Step(Step(Step(Step(Step(Step(Step(c0))))))))
                     ELSE 0
    IN  \A i \in 1..Len(sent) :
            sent[i].type = "RADIO_COMM_START" /\ sent[i].kind \in {"frame", "ack"}
            => LET psdu == sent[i].mPsdu
                   fcs == Kermit(psdu, Len(psdu) - 2)
               IN  /\ Len(psdu) >= 2
                   /\ psdu[Len(psdu) - 1] = fcs % 256
                   /\ psdu[Len(psdu)] = fcs \div 256

(***************************************************************************)
(* C26: in normal mode no step reports tx-done twice, and the end of a     *)
(* frame whose reception began in READY or in the IFS_WAIT after a         *)
(* transmission (sub-state RX_FRAME_ONGOING, where no transmission awaits  *)
(* its ACK) is handled as a received frame: the step that handles its      *)
(* RADIO_RX_DONE reports no tx-done, neither for the transmission that     *)
(* was reported before nor for a frame that the stack has handed over and  *)
(* that has not been started.                                              *)
(***************************************************************************)
C26_TxDoneAtMostOnce ==
    LET TxDoneUpcalls == {j \in 1..Len(upcalls) : upcalls[j].name = "TxDone"}
    IN  sTxInterfererLevel = 0
        => /\ Cardinality(TxDoneUpcalls) <= 1
           /\ (/\ lastOp = "ReceiveEvent"
               /\ lastEv.type = "RADIO_RX_DONE"
               /\ pre.sub = "RX_FRAME_ONGOING")
              => TxDoneUpcalls = {}

(***************************************************************************)
(* C27: when the node emits the RADIO_COMM_START of an ACK, the frame it   *)
(* acknowledges has been handed to the stack with receive-done (by the     *)
(* step that handled its RADIO_RX_DONE), whatever sTxWait and the transmit *)
(* buffer were at that step.                                               *)
(***************************************************************************)
C27_AckedFrameWasDelivered ==
    (\E i \in 1..Len(sent) : sent[i].type = "RADIO_COMM_START" /\ sent[i].kind = "ack")
        => rxDelivered

(***************************************************************************)
(* C29: a frame for this node whose RADIO_RX_DONE arrives without error in *)
(* RX_FRAME_ONGOING, while a call of otPlatRadioSleep made during the      *)
(* reception is deferred, is handed to the stack with receive-done by the  *)
(* step that handles the event, and the stack finds the coarse state       *)
(* RECEIVE in that upcall: the radio goes to sleep after the delivery.     *)
(***************************************************************************)
C29_DeliveredThoughSleepDeferred ==
    (/\ lastOp = "ReceiveEvent"
     /\ lastEv.type = "RADIO_RX_DONE"
     /\ lastEv.mError = "NONE"
     /\ pre.sub = "RX_FRAME_ONGOING"
     /\ pre.delaySleep
     /\ ~pre.txWait
     /\ sTxInterfererLevel = 0
     /\ ~sPromiscuous
     /\ lastEv.frame.toMe /\ ~lastEv.frame.isAck)
        => \E i \in 1..Len(upcalls) :
               /\ upcalls[i].name = "ReceiveDone"
               /\ upcalls[i].error = "NONE"
               /\ upcalls[i].sState = "RECEIVE"

(***************************************************************************)
(* C28: in normal mode the frame of an accepted otPlatRadioTransmit call   *)
(* is emitted at most once before tx-done is reported for the call, also   *)
(* when the sub-state deadlines end the sequence because the CCA result,   *)
(* the TX_DONE or the ACK never came.                                      *)
(***************************************************************************)
C28_FrameEmittedOnceBeforeTxDone ==
    sTxInterfererLevel = 0 => nFrameSent <= 1

(***************************************************************************)
(* C30: the driver loop does not spin at one virtual instant.  A state at  *)
(* the top of the loop in which the stack has nothing to run, the sleep    *)
(* decision is negative and a whole iteration (platformAlarmProcess,       *)
(* platformRadioProcess, platformRadioInterfererProcess) changes nothing   *)
(* and makes no upcall repeats itself for ever without a sleep event, so   *)
(* no such state is reachable.                                             *)
(***************************************************************************)
C30_LoopIterationMakesProgress ==
    ~(/\ pc = "top"
      /\ ~inStack
      /\ exitStatus = "running"
      /\ ~SleepCondition(Cur, FALSE)
      /\ \A rnd \in InterfererDraws, d \in IndeterminateDelays :
             platformRadioInterfererProcess(
                 platformRadioProcess(platformAlarmProcess(Cur), d), rnd, d) = Cur)

(***************************************************************************)
(* C31: in normal mode no step emits a RADIO_COMM_START while the coarse   *)
(* radio state is DISABLED or SLEEP, whatever calls of otPlatRadioReceive, *)
(* otPlatRadioSleep and otPlatRadioDisable the stack made during a         *)
(* transmit or ACK sequence.                                               *)
(***************************************************************************)
C31_NoEmissionWhileOff ==
    sTxInterfererLevel = 0
        => ~(/\ sState \in {"DISABLED", "SLEEP"}
             /\ \E i \in 1..Len(sent) : sent[i].type = "RADIO_COMM_START")

(***************************************************************************)
(* C32: when the node has sent a sleep event with the radio in sub-state   *)
(* READY, the operating channel, which is the channel of the last state    *)
(* report and the one an inbound RADIO_COMM_START is matched against, is   *)
(* the channel last set by otPlatRadioReceive or otPlatRadioTransmit.      *)
(***************************************************************************)
C32_SleepingOnCurrentChannel ==
    (lastOp = "Sleep" /\ sSubState = "READY")
        => /\ sOngoingOperationChannel = sCurrentChannel
           /\ sLastReported.channel = sCurrentChannel

(***************************************************************************)
(* C33: in normal mode a TX_DONE received in TX_FRAME_ONGOING for a frame  *)
(* that asks for no ACK, or with an error, reports tx-done with the error  *)
(* of the event and enters TX_TX_TO_RX for the turnaround time; the timer  *)
(* step taken at that deadline enters IFS_WAIT with the deadline LIFS      *)
(* after the TX_DONE when the frame the tx-done was reported for has more  *)
(* than aMaxSifsFrameSize octets and SIFS after it otherwise; the timer    *)
(* step that finds this deadline reached enters READY, no earlier one      *)
(* does; and no CCA request is sent in between.                            *)
(***************************************************************************)
C33_ReadyAfterInterframeSpacing ==
    [][/\ (/\ pc = "select" /\ pc' = "alarm"
           /\ lastEv'.type = "RADIO_TX_DONE"
           /\ sSubState = "TX_FRAME_ONGOING"
           /\ sTxInterfererLevel = 0
           /\ (~sTransmitFrame.ackReq \/ lastEv'.mError # "NONE"))
              => /\ sSubState' = "TX_TX_TO_RX"
                 /\ sNextRadioEventTime' = sNow' + sTurnaroundTimeUs
                 /\ tIfsEnd' = sNow' + (IF sTransmitFrame.mLength > OT_RADIO_aMaxSifsFrameSize
                                        THEN OT_RADIO_LIFS_TIME_US
                                        ELSE OT_RADIO_SIFS_TIME_US)
                 /\ \E i \in 1..Len(upcalls') : /\ upcalls'[i].name = "TxDone"
                                                /\ upcalls'[i].error = lastEv'.mError
       /\ (/\ pc = "radio" /\ pc' = "intf"
           /\ sTxInterfererLevel = 0
           /\ sSubState = "TX_TX_TO_RX"
           /\ tIfsEnd # -1
           /\ sNow = sNextRadioEventTime)
              => /\ sSubState' = "IFS_WAIT"
                 /\ sNextRadioEventTime' = tIfsEnd
       /\ (/\ pc = "radio" /\ pc' = "intf"
           /\ sTxInterfererLevel = 0
           /\ sSubState = "IFS_WAIT"
           /\ tIfsEnd # -1)
              => sSubState' = IF sNow >= sNextRadioEventTime THEN "READY" ELSE "IFS_WAIT"
       /\ (sSubState' \in {"TX_TX_TO_RX", "IFS_WAIT"} /\ tIfsEnd' # -1)
              => \A i \in 1..Len(sent') : sent'[i].type # "RADIO_CHAN_SAMPLE"]_vars

(***************************************************************************)
(* C34: an inbound event is read only by the step that leaves select(),    *)
(* one per loop iteration; that step is followed by platformAlarmProcess,  *)
(* platformRadioProcess and platformRadioInterfererProcess in this order   *)
(* before the loop is back at its top; and whenever the node blocks in     *)
(* select() again no alarm is due and no sub-state deadline has been       *)
(* reached, so every timer transition due at the clock value of the event  *)
(* was made before the next event is read.                                 *)
(***************************************************************************)
C34_OneEventPerIterationThenProcess ==
    /\ [](pc = "select"
            => /\ platformAlarmGetNext(Cur) > 0
               /\ ~(sIsMsRunning /\ sMsAlarm - otPlatAlarmMilliGetNow(Cur) <= 0)
               /\ ~(sIsUsRunning /\ sUsAlarm - otPlatAlarmMicroGetNow(Cur) <= 0)
               /\ (sSubState = "READY" \/ sNow < sNextRadioEventTime))
    /\ [][/\ (nEvents' # nEvents \/ sNow' # sNow \/ lastOp' = "ReceiveEvent")
               => (pc = "select" /\ lastOp' = "ReceiveEvent")
          /\ pc = "select" => (pc' = "alarm" /\ lastOp' = "ReceiveEvent")
          /\ (pc = "alarm" /\ pc' # pc) => (pc' = "radio" /\ lastOp' = "AlarmProcess")
          /\ (pc = "radio" /\ pc' # pc) => (pc' = "intf" /\ lastOp' = "RadioProcess")
          /\ (pc = "intf" /\ pc' # pc) => (pc' = "top" /\ lastOp' = "InterfererProcess")
          /\ (pc = "top" /\ pc' # pc) => pc' \in {"select", "alarm"}]_vars

C36_WakeAfterReportedDelayMeetsDeadline ==
    /\ [](\A i \in DOMAIN sent :
             sent[i].type = "RADIO_STATE" =>
                 sent[i].delay = IF sNextRadioEventTime > sNow
                                 THEN sNextRadioEventTime - sNow ELSE 0)
    /\ [][(/\ pc = "select" /\ pc' = "alarm"
           /\ sLastReported.eventTime > sNow
           /\ lastEv'.delay = sLastReported.eventTime - sNow)
          => sNow' <= sLastReported.eventTime]_vars

(***************************************************************************)
(* C37: the virtual clock sNow changes only in the step that reads an      *)
(* inbound event, and there by the delay of the event plus the whole       *)
(* microseconds of accumulated drift; API calls, platformAlarmProcess,     *)
(* platformRadioProcess, the interferer step and the sleep decision with   *)
(* its outbound events leave it unchanged.                                 *)
(***************************************************************************)
C37_ClockAdvancesOnlyOnReceive ==
    [][IF pc = "select" /\ pc' = "alarm"
       THEN lastEv'.mDataLength <= OT_EVENT_DATA_MAX_SIZE =>
                sNow' = sNow + lastEv'.delay
                        + CDiv(sDriftPicoSec + sClockDriftPpm * lastEv'.delay, PS_PER_US)
       ELSE sNow' = sNow]_vars

\* an event has just been read whose delay carried the drift remainder past
\* one microsecond: the clock is ahead of the sum of the delays
C37_Witness ==
    /\ lastOp = "ReceiveEvent"
    /\ lastEv.delay > 0
    /\ sClockDriftPpm > 0
    /\ sNow = tAdvanced + 1

(***************************************************************************)
(* C38: otPlatRadioDisable from Sleep enters Disabled and sub-state        *)
(* STARTUP in the call; otPlatRadioEnable from Disabled enters Sleep with  *)
(* sub-state STARTUP and a deadline 140 us ahead; otPlatRadioReceive from  *)
(* Sleep in a sub-state other than STARTUP returns NONE and enters         *)
(* sub-state STARTUP with a deadline 40 us ahead.  While the sub-state is  *)
(* STARTUP only these calls move the deadline, the sub-state is left only  *)
(* for READY and only when the clock has reached the deadline, and an      *)
(* inbound RADIO_COMM_START changes neither sub-state nor deadline.        *)
(***************************************************************************)
C38_StartupTimes ==
    [][/\ (lastOp' = "otPlatRadioDisable" /\ sState = "SLEEP")
           => /\ sState' = "DISABLED" /\ sSubState' = "STARTUP"
              /\ sNow' = sNow
       /\ (lastOp' = "otPlatRadioEnable" /\ sState = "DISABLED")
           => /\ sState' = "SLEEP" /\ sSubState' = "STARTUP"
              /\ sNextRadioEventTime' = sNow + RFSIM_STARTUP_TIME_US
       /\ (lastOp' = "otPlatRadioReceive" /\ sState = "SLEEP" /\ sSubState # "STARTUP")
           => /\ ret' = "NONE"
              /\ sState' = "RECEIVE" /\ sSubState' = "STARTUP"
              /\ sNextRadioEventTime' = sNow + RFSIM_RAMPUP_TIME_US
       /\ (sSubState = "STARTUP" /\ sSubState' = "STARTUP"
             /\ sNextRadioEventTime' # sNextRadioEventTime)
           => \/ lastOp' = "otPlatRadioDisable" /\ sState = "SLEEP"
              \/ lastOp' = "otPlatRadioEnable" /\ sState = "DISABLED"
       /\ (sSubState = "STARTUP" /\ sSubState' # "STARTUP")
           => /\ sSubState' = "READY"
              /\ pc = "radio" \/ pc = "intf"
              /\ sNow >= sNextRadioEventTime
       /\ (pc = "select" /\ lastEv'.type = "RADIO_COMM_START" /\ sSubState = "STARTUP")
           => /\ sSubState' = "STARTUP"
              /\ sNextRadioEventTime' = sNextRadioEventTime
              /\ sState' = sState
      ]_vars

\* a frame on the node's channel has just started while the radio, in
\* receive mode, was still starting up, and was not accepted
C38_Witness ==
    /\ lastOp = "ReceiveEvent"
    /\ lastEv.type = "RADIO_COMM_START"
    /\ lastEv.mChannel = sOngoingOperationChannel /\ lastEv.mError = "NONE"
    /\ sState = "RECEIVE" /\ sSubState = "STARTUP"
    /\ sNow < sNextRadioEventTime
    /\ sNextRadioEventTime - sNow < RFSIM_RAMPUP_TIME_US

\* the CSL phase of a frame whose preamble starts at now: the time from the
\* start of its MAC header, 192 us later, to the next CSL sample, a sample
\* being due every sCslPeriod * 160 us, in whole units of 160 us, rounded up
CslPhaseExpected(now) ==
    LET period == sCslPeriod * 160
        toSample == (sCslSampleTime - (now + 192)) % period
    IN  (toSample + 159) \div 160

(***************************************************************************)
(* C39 as stated: with a CSL period above 0, the CSL IE of every frame and *)
(* every Enh-Ack that is sent carries the period and the phase computed    *)
(* from the clock value at which its RADIO_COMM_START is emitted.          *)
(***************************************************************************)
C39_EveryFrameCarriesCurrentCslPhase ==
    \A i \in DOMAIN sent :
        (sent[i].type = "RADIO_COMM_START" /\ sCslPeriod > 0 /\ sent[i].mCslIe # <<>>)
            => sent[i].mCslIe = <<sCslPeriod, CslPhaseExpected(sNow)>>

(***************************************************************************)
(* C39, amended: with a CSL period above 0, the CSL IE of every Enh-Ack    *)
(* and of every frame whose header the stack has not marked as updated     *)
(* carries the period and the phase computed from the clock value at which *)
(* its RADIO_COMM_START is emitted; a frame whose header is marked as      *)
(* updated is sent with the CSL IE the stack left in the transmit buffer.  *)
(***************************************************************************)
C39_CslPhaseComputedAtEmission ==
    \A i \in DOMAIN sent :
        (sent[i].type = "RADIO_COMM_START" /\ sCslPeriod > 0 /\ sent[i].mCslIe # <<>>)
            => IF sent[i].kind = "frame" /\ sTransmitFrame.mIsHeaderUpdated
               THEN sent[i].mCslIe = sTransmitFrame.mCslIe
               ELSE sent[i].mCslIe = <<sCslPeriod, CslPhaseExpected(sNow)>>

\* a frame has just been sent whose phase is rounded up from a fraction of a
\* unit and differs from the phase the clock gave when its CCA began
C39_Witness ==
    \E i \in DOMAIN sent :
        /\ sent[i].type = "RADIO_COMM_START" /\ sent[i].kind = "frame"
        /\ sCslPeriod > 0 /\ ~sTransmitFrame.mIsHeaderUpdated
        /\ sent[i].mCslIe = <<sCslPeriod, CslPhaseExpected(sNow)>>
        /\ (sCslSampleTime - (sNow + 192)) % 160 # 0
        /\ CslPhaseExpected(sNow) # CslPhaseExpected(sNow - OT_RADIO_CCA_TIME_US
                                                          - RFSIM_TURNAROUND_TIME_US)

(***************************************************************************)
(* C40: a RADIO_COMM_START read outside READY, IFS_WAIT and TX_AIFS_WAIT,  *)
(* on a channel other than the operating channel, in Sleep or Disabled, or *)
(* with an error marker; a RADIO_RX_DONE read outside RX_FRAME_ONGOING and *)
(* TX_ACK_RX_ONGOING; a CCA result read outside TX_CCA or for a channel    *)
(* other than that of the frame to send; a RADIO_TX_DONE read outside      *)
(* TX_FRAME_ONGOING and RX_ACK_TX_ONGOING: each leaves state, sub-state,   *)
(* deadline, sTxWait, sDelaySleep and the receive buffer as they are, and  *)
(* no upcall is made.                                                      *)
(***************************************************************************)
C40_UnexpectedEventsChangeNothing ==
    [][LET ev == lastEv'
           unexpected ==
               \/ /\ ev.type = "RADIO_COMM_START"
                  /\ \/ sSubState \notin {"READY", "IFS_WAIT", "TX_AIFS_WAIT"}
                     \/ ev.mChannel # sOngoingOperationChannel
                     \/ sState \in {"SLEEP", "DISABLED"}
                     \/ ev.mError # "NONE"
               \/ /\ ev.type = "RADIO_RX_DONE"
                  /\ sSubState \notin {"RX_FRAME_ONGOING", "TX_ACK_RX_ONGOING"}
               \/ /\ ev.type = "RADIO_CHAN_SAMPLE"
                  /\ sSubState # "TX_CCA" \/ ev.mChannel # sTransmitFrame.mChannel
               \/ /\ ev.type = "RADIO_TX_DONE"
                  /\ sSubState \notin {"TX_FRAME_ONGOING", "RX_ACK_TX_ONGOING"}
       IN  (pc = "select" /\ pc' = "alarm" /\ unexpected)
               => /\ UNCHANGED <<sState, sSubState, sNextRadioEventTime, sTxWait,
                                 sDelaySleep, sReceiveFrame>>
                  /\ upcalls' = <<>>
      ]_vars

\* the start of a frame on the operating channel has just been read while
\* the radio, in receive mode, was sending a frame, and was ignored
C40_Witness ==
    /\ lastOp = "ReceiveEvent"
    /\ lastEv.type = "RADIO_COMM_START"
    /\ lastEv.mChannel = sOngoingOperationChannel /\ lastEv.mError = "NONE"
    /\ sSubState = "TX_FRAME_ONGOING"
    /\ upcalls = <<>>

====
